---- MODULE Spec2Model ----
(***************************************************************************)
(* A model of Wispr-AI/pr-review-bot.                                      *)
(*                                                                         *)
(*  - the reaction reconciler (src/src/index.ts, lines 179-390): one run   *)
(*    locates the Slack message of a PR, reads its reactions once and      *)
(*    applies a comma-separated batch of events to it, one Slack call per  *)
(*    step (specification Spec);                                           *)
(*  - the message locator findMessageWithPrUrl as a function of the        *)
(*    conversations.history response (specification SpecLocate);           *)
(*  - the repository activity scanner gatherRepoStats (specification       *)
(*    SpecScan).                                                           *)
(***************************************************************************)
EXTENDS Integers, Sequences, FiniteSets, TLC

\* ------------------------------------------------------------------ bounds

\* Longest batch of event types one run carries in EVENT_TYPE.
MaxBatch == 2

\* Longest conversations.history page the locator is given.
MaxMsgs == 3

\* Longest closed-PR listing a scan is given.
MaxListing == 2

\* Most reviews pulls.listReviews returns for one PR.
MaxReviews == 2

\* Most review comments pulls.listReviewCommentsForRepo returns for one scan.
MaxComments == 2

\* Most repositories REPOS lists.
MaxRepos == 3

\* ------------------------------------------------------- reaction tables

\* src/src/index.ts:193-197
REACTION_CATEGORIES ==
  [ approval |-> <<"speech_balloon", "approved-with-comments", "git-approved">>,
    ci       |-> <<"circleci", "circleci-pass", "circleci-fail">>,
    merge    |-> <<"git-merged">> ]

Categories == DOMAIN REACTION_CATEGORIES

\* src/src/index.ts:200-208
EMOJI_MAP ==
  [ review_commented              |-> [emoji |-> "speech_balloon",         category |-> "approval"],
    review_approved               |-> [emoji |-> "git-approved",           category |-> "approval"],
    review_approved_with_comments |-> [emoji |-> "approved-with-comments", category |-> "approval"],
    circleci_running              |-> [emoji |-> "circleci",               category |-> "ci"],
    circleci_pass                 |-> [emoji |-> "circleci-pass",          category |-> "ci"],
    circleci_fail                 |-> [emoji |-> "circleci-fail",          category |-> "ci"],
    merged                        |-> [emoji |-> "git-merged",             category |-> "merge"] ]

KnownEvents == DOMAIN EMOJI_MAP

\* A token EMOJI_MAP has no entry for.
UnknownEvent == "deploy_started"

EventTokens == KnownEvents \cup {UnknownEvent}

Range(s) == {s[k] : k \in 1..Len(s)}

CategorySymbols(c) == Range(REACTION_CATEGORIES[c])

ManagedSymbols == UNION {CategorySymbols(c) : c \in Categories}

\* Reactions the bot does not manage: :eyes:, which reviewers add by hand
\* -- src/unnamed/part_001:18
UnmanagedSymbols == {"eyes"}

\* The order in which reactions.get lists the reactions of a message.
SymbolOrder ==
  <<"eyes", "speech_balloon", "approved-with-comments", "git-approved",
    "circleci", "circleci-pass", "circleci-fail", "git-merged">>

\* Sequences over S of length at most n.
SeqsUpTo(S, n) == UNION {[1..k -> S] : k \in 0..n}

\* ------------------------------------------------------------------ state

RunIds == {1, 2}

\* A null messageTimestamp; a timestamp ts is carried as <<ts>>.
Null == <<>>

VARIABLES
  reactions,         \* the reaction names present on the target Slack message
  pc,                \* per run: the position of main()
  eventTypes,        \* per run: the events of the batch the for-loop has not consumed yet
  messageTimestamp,  \* per run: what findMessageWithPrUrl returned
  existingReactions, \* per run: the working copy read once by getMessageReactions
  rmIdx,             \* per run: index into REACTION_CATEGORIES[category] inside updateReactionState
  exitCode,          \* per run: the process's exit code
  ncalls,            \* per run: reactions.add / reactions.remove calls issued so far
  lastLog,           \* per run: the last line the run wrote to the console
  faulted,           \* per run: some platform call of the run ended in a transport error
  startOK,           \* per run: at run start every category held at most one symbol
  mergedApplied,     \* per run: a merged event of this batch has been applied
  removed,           \* per run: the symbols the current transition has taken off the message
  messages,          \* locator: the conversations.history response
  located,           \* locator: what findMessageWithPrUrl returned for it
  locateDone,        \* locator: findMessageWithPrUrl has returned
  scanPc,            \* scanner: the position of gatherRepoStats
  mergedPRs,         \* scanner: the numbers of the closed PRs merged in the window, as listed
  prIdx,             \* scanner: how many PRs of mergedPRs the loop has processed
  reviews,           \* scanner: reviews.data of the PR processed last
  reviewerStats,     \* scanner: the Map from username to ReviewerStats
  comment,           \* scanner: the review comment the comment loop processed last
  cIdx,              \* scanner: how many review comments the comment loop has processed
  totalComments,     \* scanner: the repository's count of qualifying comments
  scanResult,        \* scanner: what gatherRepoStats returned to its caller
  scanFault,         \* scanner: the fetch of the scan that threw, if any
  repos,             \* awards: REPOS, the configured repositories
  dryRunEnv,         \* awards: the value of the environment variable DRY_RUN
  slackCreds,        \* awards: SLACK_BOT_TOKEN and SLACK_CHANNEL_ID are both set
  awardsPc,          \* awards: the position of main()
  settled,           \* awards: per configured repository, how its scan settled
  rejectedEarly,     \* awards: a scan rejected while another was still pending
  successfulStats,   \* awards: the values of the fulfilled scans
  failedRepos,       \* awards: the names of the repositories whose scan rejected
  mergedStats,       \* awards: what mergeStats returned
  message,           \* awards: the message text, line by line
  posted,            \* awards: the messages chat.postMessage has put on the channel
  printed,           \* awards: the messages the dry run wrote to the console
  awardsExit,        \* awards: the process's exit code
  msgText,           \* title: the text of the message that announces the PR, atom by atom
  titlePc,           \* title: the position of the first version's main()
  eventType,         \* title: EVENT_TYPE of the running process
  prTitle,           \* title: what getPrTitle returned
  titleReactions,    \* title: the reaction names on the message
  events,            \* title: how many processes have been started for the PR
  edits,             \* title: how many chat.update calls were accepted
  titleExit,         \* title: the process's exit code
  listing,           \* pages: the closed PRs of the repository, as the API lists them
  withStop,          \* pages: whether fetchAllPages was given shouldStop
  pagesPc,           \* pages: the position of fetchAllPages and its caller
  page,              \* pages: the loop variable of fetchAllPages
  fetched,           \* pages: the items accumulated so far (results)
  requested,         \* pages: the page numbers apiCall was called with, in order
  warned,            \* pages: whether the pagination-cap warning was logged
  closedMerged       \* pages: the caller's filter of the returned list

reconcilerVars ==
  <<reactions, pc, eventTypes, messageTimestamp, existingReactions, rmIdx,
    exitCode, ncalls, lastLog, faulted, startOK, mergedApplied, removed>>

locatorVars == <<messages, located, locateDone>>

scannerVars ==
  <<scanPc, mergedPRs, prIdx, reviews, reviewerStats, comment, cIdx, totalComments,
    scanResult, scanFault>>

awardsVars ==
  <<repos, dryRunEnv, slackCreds, awardsPc, settled, rejectedEarly, successfulStats,
    failedRepos, mergedStats, message, posted, printed, awardsExit>>

titleVars ==
  <<msgText, titlePc, eventType, prTitle, titleReactions, events, edits, titleExit>>

pagesVars ==
  <<listing, withStop, pagesPc, page, fetched, requested, warned, closedMerged>>

nonReconcilerVars == <<locatorVars, scannerVars, awardsVars, titleVars, pagesVars>>

nonLocatorVars == <<reconcilerVars, scannerVars, awardsVars, titleVars, pagesVars>>

nonScannerVars == <<reconcilerVars, locatorVars, awardsVars, titleVars, pagesVars>>

nonAwardsVars == <<reconcilerVars, locatorVars, scannerVars, titleVars, pagesVars>>

nonTitleVars == <<reconcilerVars, locatorVars, scannerVars, awardsVars, pagesVars>>

nonPagesVars == <<reconcilerVars, locatorVars, scannerVars, awardsVars, titleVars>>

vars == <<reconcilerVars, locatorVars, scannerVars, awardsVars, titleVars, pagesVars>>

\* No process of the first version has run on the message yet.
TitleIdleState ==
  /\ titlePc = "idle"
  /\ eventType = "none"
  /\ prTitle = <<>>
  /\ titleReactions = {}
  /\ events = 0
  /\ edits = 0
  /\ titleExit = 0

TitleIdle ==
  /\ msgText = <<>>
  /\ TitleIdleState

\* fetchAllPages has not been called.
PagesIdle ==
  /\ listing = [total |-> 0, fresh |-> 0, lead |-> 0]
  /\ withStop = FALSE
  /\ pagesPc = "idle"
  /\ page = 1
  /\ fetched = <<>>
  /\ requested = <<>>
  /\ warned = FALSE
  /\ closedMerged = <<>>

\* -------------------------------------------------------- message locator

\* conversations.history threw
HistoryError == [error |-> TRUE, hasMessages |-> FALSE, messages |-> <<>>]

\* the response carries no messages field
NoMessages == [error |-> FALSE, hasMessages |-> FALSE, messages |-> <<>>]

\* message.text values: absent, text without the PR URL, the announcement, a reply quoting it
NoText == "no_text"
Texts  == {NoText, "standup at 10", "please review PR_URL", "re: PR_URL looks good"}

\* message.text && message.text.includes(prUrl)
Includes(text) == text \in {"please review PR_URL", "re: PR_URL looks good"}

\* Slack lists a channel newest first: the k-th of n messages carries timestamp n - k + 1.
Page(texts) == [k \in 1..Len(texts) |-> [ts |-> Len(texts) - k + 1, text |-> texts[k]]]

Response(texts) == [error |-> FALSE, hasMessages |-> TRUE, messages |-> Page(texts)]

Pages == {Response(t) : t \in SeqsUpTo(Texts, MaxMsgs)}

HistoryResponses == {HistoryError, NoMessages} \cup Pages

\* The loop of src/src/index.ts:227-234 over messages k..Len: oldestMatch is
\* overwritten by every matching message.
RECURSIVE ScanMessages(_, _, _)
ScanMessages(msgs, k, oldestMatch) ==
  IF k > Len(msgs) THEN oldestMatch
  ELSE ScanMessages(msgs, k + 1,
                    IF Includes(msgs[k].text) THEN <<msgs[k].ts>> ELSE oldestMatch)

\* The loop of the earlier locator (src/unnamed/part_002:46-51): return at the first match.
RECURSIVE FirstMatch(_, _)
FirstMatch(msgs, k) ==
  IF k > Len(msgs) THEN Null
  ELSE IF Includes(msgs[k].text) THEN <<msgs[k].ts>> ELSE FirstMatch(msgs, k + 1)

findMessageWithPrUrlNewest(response) ==
  IF response.error \/ ~response.hasMessages THEN Null ELSE FirstMatch(response.messages, 1)

\* src/src/index.ts:210-250
findMessageWithPrUrl(response) ==
  IF response.error THEN Null                   \* catch: return null
  ELSE IF ~response.hasMessages THEN Null       \* !result.messages
  ELSE ScanMessages(response.messages, 1, Null)

LocatorIdle ==
  /\ messages = NoMessages
  /\ located = Null
  /\ locateDone = FALSE

LocateInit ==
  /\ messages \in HistoryResponses
  /\ located = Null
  /\ locateDone = FALSE

Locate ==
  /\ ~locateDone
  /\ located' = findMessageWithPrUrl(messages)
  /\ locateDone' = TRUE
  /\ UNCHANGED <<messages, nonLocatorVars>>

\* ------------------------------------------------------- activity scanner

\* One repository is scanned; its PR keys are "owner/repo#number".
OwnerRepo == "org/repo"

PRNumbers == {1, 2}

\* prKey = `${ownerRepo}#${pr.number}` -- src/unnamed/part_000:116
PrKey(ownerRepo, number) == <<ownerRepo, number>>

\* pr.user.login of each PR.
PRAuthor == [n \in PRNumbers |-> IF n = 1 THEN "bob" ELSE "dave"]

\* additions and deletions of each PR, as pulls.get reports them.
PRDetail ==
  [n \in PRNumbers |->
     IF n = 1 THEN [additions |-> 150, deletions |-> 50]
     ELSE [additions |-> 20, deletions |-> 10]]

\* prLines = (prDetail.additions ?? 0) + (prDetail.deletions ?? 0) -- src/unnamed/part_000:123
PrLines(number) == PRDetail[number].additions + PRDetail[number].deletions

\* review.user of a review: a login with its account type, or no user at all.
NoUser == [login |-> "", type |-> ""]

ReviewUsers ==
  { [login |-> "alice", type |-> "User"],
    [login |-> "bob", type |-> "User"],
    [login |-> "dependabot", type |-> "Bot"],
    NoUser }

ReviewStates == {"APPROVED", "COMMENTED", "CHANGES_REQUESTED"}

\* The reviews pulls.listReviews can return: alice's in every state, and an
\* approval by each of the others (a review of a Bot or without a user is
\* dropped before its state is read).
Reviews ==
  { rv \in [user : ReviewUsers, state : ReviewStates] :
      rv.user.login = "alice" \/ rv.state = "APPROVED" }

ReviewLists == SeqsUpTo(Reviews, MaxReviews)

\* The window is the last seven days -- src/src/weekly-awards.ts:335
WindowDays == 7

\* Days are counted from a fortnight before now: the window starts on day WindowDays.
sinceDate == WindowDays

\* merged_at of a listed PR: null, or a day.
NullTime == <<>>

MergeTimes == {NullTime, <<sinceDate - 1>>, <<sinceDate>>, <<sinceDate + 1>>}

ClosedPRs == [number : PRNumbers, merged_at : MergeTimes]

Listings == SeqsUpTo(ClosedPRs, MaxListing)

\* pr.merged_at && pr.merged_at >= sinceDate -- src/src/weekly-awards.ts:138-140
InWindow(pr) == pr.merged_at # NullTime /\ pr.merged_at[1] >= sinceDate

\* The reviews the group-by keeps: a user, of type User, not the PR's author
\* -- src/src/weekly-awards.ts:161-165
Eligible(review, prAuthor) ==
  /\ review.user # NoUser
  /\ review.user.type = "User"
  /\ review.user.login # prAuthor

\* reviewsByUser: the states of each eligible reviewer's reviews, in order
\* -- src/src/weekly-awards.ts:160-169
ReviewsByUser(revs, prAuthor) ==
  LET kept == SelectSeq(revs, LAMBDA rv : Eligible(rv, prAuthor))
  IN  [u \in {kept[k].user.login : k \in 1..Len(kept)} |->
         LET mine == SelectSeq(kept, LAMBDA rv : rv.user.login = u)
         IN  [k \in 1..Len(mine) |-> mine[k].state]]

\* The earlier rule: one credit per eligible reviewer, whatever the review
\* states -- src/unnamed/part_004:159-174
CreditedAnyReview(revs, prAuthor) == DOMAIN ReviewsByUser(revs, prAuthor)

\* The reviewers credited with the PR: an approval, or two comment reviews
\* -- src/src/weekly-awards.ts:171-178
Credited(revs, prAuthor) ==
  LET byUser == ReviewsByUser(revs, prAuthor)
  IN  { u \in DOMAIN byUser :
          LET states       == byUser[u]
              hasApproval  == \E k \in 1..Len(states) : states[k] = "APPROVED"
              commentCount == Len(SelectSeq(states, LAMBDA st : st = "COMMENTED"))
          IN  ~(~hasApproval /\ commentCount < 2) }

\* getOrCreateStats -- src/unnamed/part_000:43-56
NewStats ==
  [prsReviewed |-> {}, commentCount |-> 0, commentPrs |-> {},
   linesReviewed |-> 0, linesPrs |-> {}]

GetOrCreateStats(map, username) ==
  IF username \in DOMAIN map THEN map[username] ELSE NewStats

\* The attribution loop over the credited reviewers -- src/unnamed/part_000:143-152
Attribute(map, credited, prKey, prLines) ==
  [u \in DOMAIN map \cup credited |->
     IF u \in credited
     THEN LET stats == GetOrCreateStats(map, u)
          IN  [stats EXCEPT !.prsReviewed   = @ \cup {prKey},
                            !.linesReviewed = @ + prLines,
                            !.linesPrs      = @ \cup {prKey}]
     ELSE map[u]]

EmptyMap == [u \in {} |-> NewStats]

\* comment.body is text over two kinds of character: a word character and a
\* whitespace character.
WordChar == "w"

Space == " "

\* comment.body absent (null or undefined).
NoBody == <<"null">>

\* Bodies of review comments: none, "", "LGTM", "nice work", "ok thanks" with
\* padding and a double space, "nice work team", a padded three-word body,
\* "oh no" and a lone space.
Bodies ==
  { NoBody,
    <<>>,
    <<"w">>,
    <<"w", " ", "w">>,
    <<" ", "w", "w", " ", " ", "w", " ">>,
    <<"w", " ", "w", " ", "w">>,
    <<" ", "w", " ", "w", " ", " ", "w", "w">>,
    <<"w", "w", " ", "w", "w">>,
    <<" ">> }

\* comment.body ?? '' -- src/src/weekly-awards.ts:201
BodyOrEmpty(body) == IF body = NoBody THEN <<>> ELSE body

\* String.prototype.trim: the whitespace at both ends is dropped.
RECURSIVE TrimStart(_)
TrimStart(text) ==
  IF text # <<>> /\ Head(text) = Space THEN TrimStart(Tail(text)) ELSE text

RECURSIVE TrimEnd(_)
TrimEnd(text) ==
  IF text # <<>> /\ text[Len(text)] = Space
  THEN TrimEnd(SubSeq(text, 1, Len(text) - 1))
  ELSE text

Trim(text) == TrimEnd(TrimStart(text))

\* text.split(/\s+/).length: every run of whitespace separates two pieces, and
\* a text without whitespace (the empty text too) is one piece.
SplitLength(text) ==
  1 + Cardinality({k \in 1..Len(text) :
                    text[k] = Space /\ (k = 1 \/ text[k - 1] # Space)})

\* The low-effort test applied to the body as it came.
LowEffortUntrimmed(body) == SplitLength(BodyOrEmpty(body)) <= 2

\* body.split(/\s+/).length <= 2 on the trimmed body -- src/src/weekly-awards.ts:201-202
LowEffort(body) == SplitLength(Trim(BodyOrEmpty(body))) <= 2

\* The review comments pulls.listReviewCommentsForRepo can return: alice's with
\* every body on every PR, and a three-word comment by bob, by a bot and by
\* no user.
Comments ==
  { c \in [user : ReviewUsers, body : Bodies, number : PRNumbers] :
      \/ c.user.login = "alice"
      \/ c.body = <<"w", " ", "w", " ", "w">> /\ c.number = 1 }

\* No comment processed yet; a comment c is carried as <<c>>.
NoComment == <<>>

\* The comment filters -- src/src/weekly-awards.ts:197-202
Counted(c) ==
  /\ c.user # NoUser
  /\ c.user.type = "User"
  /\ ~LowEffort(c.body)

\* The body of the comment loop -- src/src/weekly-awards.ts:196-211
CountComment(map, c, ownerRepo) ==
  IF ~Counted(c) THEN map
  ELSE [u \in DOMAIN map \cup {c.user.login} |->
          IF u = c.user.login
          THEN LET stats == GetOrCreateStats(map, u)
               IN  [stats EXCEPT !.commentCount = @ + 1,
                                 !.commentPrs   = @ \cup {PrKey(ownerRepo, c.number)}]
          ELSE map[u]]

\* gatherRepoStats has not returned; a returned RepoStats r is carried as <<r>>.
NoResult == <<>>

ScannerIdle ==
  /\ scanPc = "idle"
  /\ mergedPRs = <<>>
  /\ prIdx = 0
  /\ reviews = <<>>
  /\ reviewerStats = EmptyMap
  /\ comment = NoComment
  /\ cIdx = 0
  /\ totalComments = 0
  /\ scanResult = NoResult
  /\ scanFault = "none"

\* pulls.list through fetchAllPages, then the merged-in-window filter
\* -- src/unnamed/part_000:94-109
ScanStart ==
  /\ scanPc = "idle"
  /\ \E closedPRs \in Listings :
       LET merged == SelectSeq(closedPRs, InWindow)
       IN  mergedPRs' = [k \in 1..Len(merged) |-> merged[k].number]
  /\ scanPc' = "prs"
  /\ UNCHANGED <<prIdx, reviews, reviewerStats, comment, cIdx, totalComments, scanResult, scanFault,
                 nonScannerVars>>

\* One iteration of the loop over mergedPRs: pulls.get, pulls.listReviews, the
\* group-by and the attribution -- src/unnamed/part_000:111-153
ProcessPR ==
  /\ scanPc = "prs"
  /\ prIdx < Len(mergedPRs)
  /\ LET number == mergedPRs[prIdx + 1] IN
     \E data \in ReviewLists :
       /\ reviews' = data
       /\ reviewerStats' = Attribute(reviewerStats, Credited(data, PRAuthor[number]),
                                     PrKey(OwnerRepo, number), PrLines(number))
  /\ prIdx' = prIdx + 1
  /\ UNCHANGED <<scanPc, mergedPRs, comment, cIdx, totalComments, scanResult, scanFault, nonScannerVars>>

\* What gatherRepoStats returns -- src/src/weekly-awards.ts:215-219
RepoStatsOf(map, merged, total) ==
  [reviewerStats |-> map, mergedCount |-> Len(merged), totalComments |-> total]

\* A gatherRepoStats that catches a failed fetch and returns what it has.
OnFetchErrorReturn == "return"

\* gatherRepoStats has no try/catch: a fetch that throws rejects the scan
\* -- src/src/weekly-awards.ts:114-220
OnFetchError == "throw"

\* The scan after the fetch `fetch` threw.
FetchFails(fetch) ==
  /\ scanFault' = fetch
  /\ IF OnFetchError = "throw"
     THEN scanPc' = "failed" /\ UNCHANGED scanResult
     ELSE /\ scanPc' = "returned"
          /\ scanResult' = <<RepoStatsOf(reviewerStats, mergedPRs, totalComments)>>
  /\ UNCHANGED <<mergedPRs, prIdx, reviews, reviewerStats, comment, cIdx, totalComments,
                 nonScannerVars>>

\* pulls.list throws inside fetchAllPages -- src/src/weekly-awards.ts:121-136
ListFails ==
  /\ scanPc = "idle"
  /\ FetchFails("list")

\* pulls.get or pulls.listReviews of the next PR throws: the scan rejects
\* -- src/unnamed/part_000:119-128
PrFetchFails ==
  /\ scanPc = "prs"
  /\ prIdx < Len(mergedPRs)
  /\ FetchFails("pr")

\* The loop over mergedPRs is over and its block-scoped reviews are gone; the
\* review-comment pass starts here -- src/unnamed/part_000:154-157
PRsDone ==
  /\ scanPc = "prs"
  /\ prIdx = Len(mergedPRs)
  /\ scanPc' = "comments"
  /\ reviews' = <<>>
  /\ UNCHANGED <<mergedPRs, prIdx, reviewerStats, comment, cIdx, totalComments, scanResult, scanFault,
                 nonScannerVars>>

\* pulls.listReviewCommentsForRepo through fetchAllPages answered
\* -- src/src/weekly-awards.ts:184-194
FetchComments ==
  /\ scanPc = "comments"
  /\ scanPc' = "counting"
  /\ UNCHANGED <<mergedPRs, prIdx, reviews, reviewerStats, comment, cIdx, totalComments,
                 scanResult, scanFault, nonScannerVars>>

\* pulls.listReviewCommentsForRepo throws inside fetchAllPages
\* -- src/src/weekly-awards.ts:184-194
CommentsFetchFails ==
  /\ scanPc = "comments"
  /\ FetchFails("comments")

\* One iteration of the loop over the fetched comments
\* -- src/src/weekly-awards.ts:196-211
ProcessComment ==
  /\ scanPc = "counting"
  /\ cIdx < MaxComments
  /\ \E c \in Comments :
       /\ comment' = <<c>>
       /\ reviewerStats' = CountComment(reviewerStats, c, OwnerRepo)
       /\ totalComments' = IF Counted(c) THEN totalComments + 1 ELSE totalComments
  /\ cIdx' = cIdx + 1
  /\ UNCHANGED <<scanPc, mergedPRs, prIdx, reviews, scanResult, scanFault, nonScannerVars>>

\* The comment loop is over: gatherRepoStats returns
\* -- src/src/weekly-awards.ts:213-219
ScanReturn ==
  /\ scanPc = "counting"
  /\ scanPc' = "returned"
  /\ scanResult' = <<RepoStatsOf(reviewerStats, mergedPRs, totalComments)>>
  /\ UNCHANGED <<mergedPRs, prIdx, reviews, reviewerStats, comment, cIdx, totalComments,
                 scanFault, nonScannerVars>>

\* ------------------------------------------------------- awards: merging

\* A Map from username to ReviewerStats is the sequence of its entries
\* [username, stats] in insertion order, the order its iteration follows.
Usernames == {"alice", "bob"}

HasEntry(map, username) == \E k \in 1..Len(map) : map[k].username = username

EntryIndex(map, username) == CHOOSE k \in 1..Len(map) : map[k].username = username

\* The per-reviewer merge that keeps the last repository's comment count.
MergeIntoOverwriting(g, stats) ==
  [prsReviewed   |-> g.prsReviewed \cup stats.prsReviewed,
   commentCount  |-> stats.commentCount,
   commentPrs    |-> g.commentPrs \cup stats.commentPrs,
   linesReviewed |-> g.linesReviewed + stats.linesReviewed,
   linesPrs      |-> g.linesPrs \cup stats.linesPrs]

\* What mergeStats does to the global stats g of a reviewer with the stats of
\* one repository -- src/unnamed/part_000:199-211
MergeInto(g, stats) ==
  [prsReviewed   |-> g.prsReviewed \cup stats.prsReviewed,
   commentCount  |-> g.commentCount + stats.commentCount,
   commentPrs    |-> g.commentPrs \cup stats.commentPrs,
   linesReviewed |-> g.linesReviewed + stats.linesReviewed,
   linesPrs      |-> g.linesPrs \cup stats.linesPrs]

\* getOrCreateStats on the global Map, then the merge -- src/unnamed/part_000:198-211
MergeEntry(map, entry) ==
  LET g == IF HasEntry(map, entry.username) THEN map
           ELSE Append(map, [username |-> entry.username, stats |-> NewStats])
      k == EntryIndex(g, entry.username)
  IN  [g EXCEPT ![k].stats = MergeInto(@, entry.stats)]

\* The loop over repoStats.reviewerStats -- src/unnamed/part_000:197-212
RECURSIVE MergeEntries(_, _, _)
MergeEntries(map, entries, k) ==
  IF k > Len(entries) THEN map
  ELSE MergeEntries(MergeEntry(map, entries[k]), entries, k + 1)

\* The loop over allRepoStats -- src/unnamed/part_000:194-213
RECURSIVE MergeRepos(_, _, _)
MergeRepos(acc, allRepoStats, k) ==
  IF k > Len(allRepoStats) THEN acc
  ELSE LET repoStats == allRepoStats[k]
       IN  MergeRepos([global        |-> MergeEntries(acc.global, repoStats.reviewerStats, 1),
                       totalMerged   |-> acc.totalMerged + repoStats.mergedCount,
                       totalComments |-> acc.totalComments + repoStats.totalComments],
                      allRepoStats, k + 1)

\* src/unnamed/part_000:190-215
mergeStats(allRepoStats) ==
  MergeRepos([global |-> <<>>, totalMerged |-> 0, totalComments |-> 0], allRepoStats, 1)

\* ------------------------------------------------------- awards: ranking

\* The metrics the rankings read off a ReviewerStats -- src/unnamed/part_000:238-240
Metric(stats, name) ==
  CASE name = "prsReviewed.size"   -> Cardinality(stats.prsReviewed)
    [] name = "commentCount"       -> stats.commentCount
    [] name = "commentPrs.size"    -> Cardinality(stats.commentPrs)
    [] name = "linesReviewed"      -> stats.linesReviewed
    [] name = "linesPrs.size"      -> Cardinality(stats.linesPrs)

\* The order localeCompare puts the usernames in.
Collation == <<"alice", "bob">>

\* a.localeCompare(b): negative, zero or positive
localeCompare(a, b) ==
  (CHOOSE k \in 1..Len(Collation) : Collation[k] = a)
    - (CHOOSE k \in 1..Len(Collation) : Collation[k] = b)

\* The comparator of the preview's leaderboard: the metric alone
\* -- src/src/index.ts:517-519
CompareMetricOnly(a, b, metric, tiebreak) ==
  Metric(b.stats, metric) - Metric(a.stats, metric)

\* The comparator of rankBy -- src/unnamed/part_000:221-229
Compare(a, b, metric, tiebreak) ==
  LET diff   == Metric(b.stats, metric) - Metric(a.stats, metric)
      tbDiff == Metric(b.stats, tiebreak) - Metric(a.stats, tiebreak)
  IN  IF diff # 0 THEN diff
      ELSE IF tbDiff # 0 THEN tbDiff
      ELSE localeCompare(a.username, b.username)

\* Array.prototype.sort is stable: an entry goes before the first entry that
\* the comparator puts after it.
InsertSorted(sorted, e, metric, tiebreak) ==
  LET later == {k \in 1..Len(sorted) : Compare(e, sorted[k], metric, tiebreak) < 0}
      at    == IF later = {} THEN Len(sorted) + 1
               ELSE CHOOSE k \in later : \A j \in later : k <= j
  IN  SubSeq(sorted, 1, at - 1) \o <<e>> \o SubSeq(sorted, at, Len(sorted))

RECURSIVE Sort(_, _, _, _, _)
Sort(sorted, entries, k, metric, tiebreak) ==
  IF k > Len(entries) THEN sorted
  ELSE Sort(InsertSorted(sorted, entries[k], metric, tiebreak), entries, k + 1,
            metric, tiebreak)

\* src/unnamed/part_000:217-230
rankBy(stats, metric, tiebreak) ==
  Sort(<<>>, SelectSeq(stats, LAMBDA e : Metric(e.stats, metric) > 0), 1, metric, tiebreak)

\* No winner (null); a winner e is carried as <<e>>.
NoWinner == <<>>

\* The earlier pickWinner: the first entry is the best so far, whatever its
\* metric, and a later entry replaces it when it beats it
\* -- src/unnamed/part_004:251-277
RECURSIVE PickLoop(_, _, _, _, _)
PickLoop(best, stats, k, metric, tiebreak) ==
  IF k > Len(stats) THEN best
  ELSE LET e == stats[k] IN
       IF best = NoWinner THEN PickLoop(<<e>>, stats, k + 1, metric, tiebreak)
       ELSE LET val     == Metric(e.stats, metric)
                bestVal == Metric(best[1].stats, metric)
                tb      == Metric(e.stats, tiebreak)
                bestTb  == Metric(best[1].stats, tiebreak)
                beats   == \/ val > bestVal
                           \/ /\ val = bestVal
                              /\ \/ tb > bestTb
                                 \/ tb = bestTb /\ localeCompare(e.username, best[1].username) < 0
            IN  PickLoop(IF beats THEN <<e>> ELSE best, stats, k + 1, metric, tiebreak)

pickWinnerLoop(stats, metric, tiebreak) == PickLoop(NoWinner, stats, 1, metric, tiebreak)

\* src/unnamed/part_000:231-234
pickWinner(stats, metric, tiebreak) ==
  LET sorted == rankBy(stats, metric, tiebreak)
  IN  IF Len(sorted) > 0 THEN <<sorted[1]>> ELSE NoWinner

\* ---------------------------------------------------- awards: formatting

\* The message is the sequence of its lines; a line is named by its kind and
\* carries the values rendered into it.
Line(kind) == [kind |-> kind, username |-> "", count |-> 0, across |-> 0, names |-> <<>>]

\* slice(0, 3) -- src/unnamed/part_000:238
TopN == 3

Slice(list, n) == SubSeq(list, 1, IF Len(list) < n THEN Len(list) ELSE n)

\* A quiet-week test that looks at the reviewers' ranking alone.
IsQuietReviewersOnly(topReviewers, mostComments, heavyLifter) == Len(topReviewers) = 0

\* src/unnamed/part_000:242
IsQuiet(topReviewers, mostComments, heavyLifter) ==
  Len(topReviewers) = 0 /\ mostComments = NoWinner /\ heavyLifter = NoWinner

\* src/unnamed/part_000:243-244
QuietMessage == <<Line("quiet_header"), Line(""), Line("quiet_body")>>

\* src/unnamed/part_000:250-256
TopReviewerLines(topReviewers) ==
  IF Len(topReviewers) > 0
  THEN <<Line("top_reviewers_title")>> \o
       [i \in 1..Len(topReviewers) |->
          [Line("medal") EXCEPT !.username = topReviewers[i].username,
                                !.count = Cardinality(topReviewers[i].stats.prsReviewed),
                                !.across = i]]
  ELSE <<>>

\* src/unnamed/part_000:257-261
HeavyLifterLines(heavyLifter) ==
  IF heavyLifter # NoWinner
  THEN <<Line(""),
         [Line("heavy_lifter") EXCEPT !.username = heavyLifter[1].username,
                                      !.count = heavyLifter[1].stats.linesReviewed,
                                      !.across = Cardinality(heavyLifter[1].stats.linesPrs)]>>
  ELSE <<>>

\* src/unnamed/part_000:262-265
MostCommentsLines(mostComments) ==
  IF mostComments # NoWinner
  THEN <<[Line("most_comments") EXCEPT !.username = mostComments[1].username,
                                       !.count = mostComments[1].stats.commentCount,
                                       !.across = Cardinality(mostComments[1].stats.commentPrs)]>>
  ELSE <<>>

\* src/unnamed/part_000:266-267
TeamStatsLines(totalMerged, total) ==
  <<Line(""), [Line("team_stats") EXCEPT !.count = totalMerged, !.across = total]>>

\* src/unnamed/part_000:236-269
formatMessage(global, totalMerged, total) ==
  LET topReviewers == Slice(rankBy(global, "prsReviewed.size", "commentCount"), TopN)
      mostComments == pickWinner(global, "commentCount", "commentPrs.size")
      heavyLifter  == pickWinner(global, "linesReviewed", "linesPrs.size")
  IN  IF IsQuiet(topReviewers, mostComments, heavyLifter) THEN QuietMessage
      ELSE <<Line("header"), Line("")>>
             \o TopReviewerLines(topReviewers)
             \o HeavyLifterLines(heavyLifter)
             \o MostCommentsLines(mostComments)
             \o TeamStatsLines(totalMerged, total)

\* message += `\n\n_:warning: Could not scan: ...` -- src/src/weekly-awards.ts:368-370
WarningFooter(failed) ==
  IF Len(failed) > 0
  THEN <<Line(""), [Line("warning") EXCEPT !.names = failed]>>
  ELSE <<>>

\* ------------------------------------------------------- awards: the run

RepoNames == <<"org/repo", "org/api">>

\* The REPOS lists: none, or "org/repo" followed by names in the order of RepoNames.
ReposConfigs ==
  { l \in SeqsUpTo(Range(RepoNames), MaxRepos) :
      /\ Len(l) > 0 => l[1] = RepoNames[1]
      /\ \A k \in 1..(Len(l) - 1) : l[k] = RepoNames[1] \/ l[k + 1] = RepoNames[2] }

\* process.env.DRY_RUN: unset or 'true'
DryRunValues == {"unset", "true"}

\* A test against the boolean true, which no environment string equals.
IsDryRunBoolean(value) == FALSE

\* DRY_RUN = process.env.DRY_RUN === 'true' -- src/src/weekly-awards.ts:9
IsDryRun(value) == value = "true"

\* A reviewer credited with PR 2 of `ownerRepo`.
ReviewedOne(ownerRepo) ==
  [NewStats EXCEPT !.prsReviewed = {PrKey(ownerRepo, 2)},
                   !.linesReviewed = PrLines(2),
                   !.linesPrs = {PrKey(ownerRepo, 2)}]

\* The author of one counted comment on PR 1 of `ownerRepo`.
CommentedOnly(ownerRepo) ==
  [NewStats EXCEPT !.commentCount = 1, !.commentPrs = {PrKey(ownerRepo, 1)}]

\* The stats a scan of `ownerRepo` holds for one reviewer.
UserStats(ownerRepo) == {ReviewedOne(ownerRepo), CommentedOnly(ownerRepo)}

\* The reviewerStats Maps of a scan: no reviewer, one reviewer, or alice
\* credited with a PR and bob the author of a comment.
ReviewerMaps(ownerRepo) ==
  {<<>>}
    \cup {<<e>> : e \in [username : Usernames, stats : UserStats(ownerRepo)]}
    \cup {<<[username |-> "alice", stats |-> ReviewedOne(ownerRepo)],
            [username |-> "bob", stats |-> CommentedOnly(ownerRepo)]>>}

RECURSIVE SumComments(_, _)
SumComments(map, k) ==
  IF k > Len(map) THEN 0 ELSE map[k].stats.commentCount + SumComments(map, k + 1)

\* The RepoStats gatherRepoStats(ownerRepo) can return.
ScanResults(ownerRepo) ==
  { [reviewerStats |-> m,
     mergedCount   |-> IF m = <<>> THEN 0 ELSE Cardinality(PRNumbers),
     totalComments |-> SumComments(m, 1)] : m \in ReviewerMaps(ownerRepo) }

Pending == [status |-> "pending", value |-> <<>>]

Rejected == [status |-> "rejected", value |-> <<>>]

Fulfilled(value) == [status |-> "fulfilled", value |-> <<value>>]

\* A join that settles at the first rejection, as Promise.all does.
AllOrFirstRejection(results) ==
  \/ \E i \in DOMAIN results : results[i].status = "rejected"
  \/ \A i \in DOMAIN results : results[i].status # "pending"

\* Promise.allSettled resolves once every scan has settled
\* -- src/src/weekly-awards.ts:341-343
AllSettled(results) == \A i \in DOMAIN results : results[i].status # "pending"

\* results.forEach: the values of the fulfilled -- src/src/weekly-awards.ts:348-351
RECURSIVE CollectFulfilled(_, _)
CollectFulfilled(results, k) ==
  IF k > Len(results) THEN <<>>
  ELSE (IF results[k].status = "fulfilled" THEN results[k].value ELSE <<>>)
       \o CollectFulfilled(results, k + 1)

\* results.forEach: the names of the others -- src/src/weekly-awards.ts:352-354
RECURSIVE CollectFailed(_, _, _)
CollectFailed(results, names, k) ==
  IF k > Len(results) THEN <<>>
  ELSE (IF results[k].status = "fulfilled" THEN <<>> ELSE <<names[k]>>)
       \o CollectFailed(results, names, k + 1)

\* A run that gives up as soon as one repository failed.
AnyFailure(successful, failed) == Len(failed) > 0

\* successfulStats.length === 0 -- src/src/weekly-awards.ts:357
NoSuccess(successful, failed) == Len(successful) = 0

NoStats == [global |-> <<>>, totalMerged |-> 0, totalComments |-> 0]

AwardsIdleState ==
  /\ awardsPc = "idle"
  /\ settled = <<>>
  /\ rejectedEarly = FALSE
  /\ successfulStats = <<>>
  /\ failedRepos = <<>>
  /\ mergedStats = NoStats
  /\ message = <<>>
  /\ posted = <<>>
  /\ printed = <<>>
  /\ awardsExit = 0

\* No awards run: nothing configured, nothing started.
AwardsIdle ==
  /\ repos = <<>>
  /\ dryRunEnv = "unset"
  /\ slackCreds = TRUE
  /\ AwardsIdleState

\* The module is loaded with its configuration and environment
\* -- src/src/weekly-awards.ts:6-16
AwardsInit ==
  /\ repos \in ReposConfigs
  /\ dryRunEnv \in DryRunValues
  /\ slackCreds \in BOOLEAN
  /\ AwardsIdleState

\* main up to Promise.allSettled: every scan is started
\* -- src/src/weekly-awards.ts:326-343
AwardsStart ==
  /\ awardsPc = "idle"
  /\ IF Len(repos) = 0
     THEN /\ awardsPc' = "exited"
          /\ awardsExit' = 1
          /\ UNCHANGED settled
     ELSE /\ awardsPc' = "scanning"
          /\ settled' = [i \in 1..Len(repos) |-> Pending]
          /\ UNCHANGED awardsExit
  /\ UNCHANGED <<repos, dryRunEnv, slackCreds, rejectedEarly, successfulStats, failedRepos,
                 mergedStats, message, posted, printed, nonAwardsVars>>

\* The scan of repos[i] settles: it returns a RepoStats or rejects
\* -- src/src/weekly-awards.ts:342
Settle(i) ==
  /\ awardsPc = "scanning"
  /\ settled[i] = Pending
  /\ \E outcome \in {Rejected} \cup {Fulfilled(v) : v \in ScanResults(repos[i])} :
       /\ settled' = [settled EXCEPT ![i] = outcome]
       /\ rejectedEarly' = (\/ rejectedEarly
                            \/ /\ outcome = Rejected
                               /\ \E j \in DOMAIN settled : j # i /\ settled[j] = Pending)
  /\ UNCHANGED <<repos, dryRunEnv, slackCreds, awardsPc, successfulStats, failedRepos,
                 mergedStats, message, posted, printed, awardsExit, nonAwardsVars>>

\* main from the join to the post: partition, merge, format, footer, dry run
\* and credentials -- src/src/weekly-awards.ts:341-384
Join ==
  /\ awardsPc = "scanning"
  /\ AllSettled(settled)
  /\ LET successful == CollectFulfilled(settled, 1)
         failed     == CollectFailed(settled, repos, 1)
         merged     == mergeStats(successful)
         text       == formatMessage(merged.global, merged.totalMerged, merged.totalComments)
                         \o WarningFooter(failed)
     IN  /\ successfulStats' = successful
         /\ failedRepos' = failed
         /\ IF NoSuccess(successful, failed)
            THEN /\ awardsPc' = "exited"
                 /\ awardsExit' = 1
                 /\ UNCHANGED <<mergedStats, message, printed>>
            ELSE /\ mergedStats' = merged
                 /\ message' = text
                 /\ IF IsDryRun(dryRunEnv)
                    THEN /\ printed' = Append(printed, text)
                         /\ awardsPc' = "done"
                         /\ UNCHANGED awardsExit
                    ELSE IF ~slackCreds
                    THEN /\ awardsPc' = "exited"
                         /\ awardsExit' = 1
                         /\ UNCHANGED printed
                    ELSE /\ awardsPc' = "posting"
                         /\ UNCHANGED <<awardsExit, printed>>
  /\ UNCHANGED <<repos, dryRunEnv, slackCreds, settled, rejectedEarly, posted, nonAwardsVars>>

\* slackClient.chat.postMessage answers or throws (main().catch exits with 1)
\* -- src/src/weekly-awards.ts:386-392, 395-399
Post ==
  /\ awardsPc = "posting"
  /\ \E answer \in {"ok", "error"} :
       IF answer = "ok"
       THEN /\ posted' = Append(posted, message)
            /\ awardsPc' = "done"
            /\ UNCHANGED awardsExit
       ELSE /\ awardsPc' = "exited"
            /\ awardsExit' = 1
            /\ UNCHANGED posted
  /\ UNCHANGED <<repos, dryRunEnv, slackCreds, settled, rejectedEarly, successfulStats,
                 failedRepos, mergedStats, message, printed, nonAwardsVars>>

\* ------------------------------------------------------------ reconciler

Batches == SeqsUpTo(EventTokens, MaxBatch)

\* What conversations.history answers in a reconciler run: an error, a page
\* without the PR URL, a page holding the announcement.
RunResponses ==
  {HistoryError, Response(<<"standup at 10">>),
   Response(<<"standup at 10", "please review PR_URL">>)}

\* A main that never takes the not-found exit.
NotFoundAlways(ts) == FALSE

\* if (!messageTimestamp) — src/src/index.ts:333
NotFound(ts) == ts = Null

\* message.reactions.map(r => r.name) — src/src/index.ts:258-261
RECURSIVE ReactionNames(_, _)
ReactionNames(present, k) ==
  IF k > Len(SymbolOrder) THEN <<>>
  ELSE (IF SymbolOrder[k] \in present THEN <<SymbolOrder[k]>> ELSE <<>>)
       \o ReactionNames(present, k + 1)

\* existingReactions.includes(name)
ListIncludes(list, name) == \E k \in 1..Len(list) : list[k] = name

\* idx = list.indexOf(name); if (idx !== -1) list.splice(idx, 1)
RemoveFirst(list, name) ==
  IF ~ListIncludes(list, name) THEN list
  ELSE LET idx == CHOOSE k \in 1..Len(list) :
                    list[k] = name /\ \A j \in 1..(k - 1) : list[j] # name
       IN  SubSeq(list, 1, idx - 1) \o SubSeq(list, idx + 1, Len(list))

RECURSIVE RemoveAll(_, _, _)
RemoveAll(list, cat, k) ==
  IF k > Len(cat) THEN list ELSE RemoveAll(RemoveFirst(list, cat[k]), cat, k + 1)

KeepWorkingCopyStale(list, info) == list

\* src/src/index.ts:375-381: keep the in-memory list consistent
UpdateWorkingCopy(list, info) ==
  Append(RemoveAll(list, REACTION_CATEGORIES[info.category], 1), info.emoji)

\* The symbols of every category, in one list.
AllManaged ==
  REACTION_CATEGORIES["approval"] \o REACTION_CATEGORIES["ci"] \o REACTION_CATEGORIES["merge"]

\* A removal list that ignores the category.
reactionsToRemoveAnyCategory(category) == AllManaged

\* const reactionsToRemove = REACTION_CATEGORIES[category] -- src/src/index.ts:314
reactionsToRemove(category) == REACTION_CATEGORIES[category]

\* The index after k of the next reaction of the category that updateReactionState
\* removes (reactionEmoji !== emoji), or 0 when none is left — src/src/index.ts:315-319
NextRemoval(info, k) ==
  LET cat  == reactionsToRemove(info.category)
      rest == {j \in (k + 1)..Len(cat) : cat[j] # info.emoji}
  IN  IF rest = {} THEN 0 ELSE CHOOSE j \in rest : \A i \in rest : j <= i

FirstRemovalNone(info) == 0

FirstRemoval(info) == NextRemoval(info, 0)

\* src/src/index.ts:354
MergedGuard(info, list) == info.category = "ci" /\ ListIncludes(list, "git-merged")

\* src/src/index.ts:362
RunningGuard(info, list) == info.emoji = "circleci" /\ ListIncludes(list, "circleci-pass")

\* How the platform can answer reactions.remove(name) / reactions.add(name).
RemoveAnswers(name) == IF name \in reactions THEN {"ok", "error"} ELSE {"no_reaction", "error"}

AddAnswers(name) == IF name \in reactions THEN {"already_reacted", "error"} ELSE {"ok", "error"}

RemoveRethrows(answer) == answer = "error"

\* removeReaction's catch never rethrows — src/src/index.ts:277-284
RemoveThrows(answer) == FALSE

\* An addReaction that tolerates nothing but success.
AddThrowsUnlessOk(answer) == answer # "ok"

\* addReaction's catch rethrows all but already_reacted — src/src/index.ts:295-302
AddThrows(answer) == answer = "error"

\* A loop that logs the error of an event and goes on with the next one.
OnAddErrorContinue == "continue"

\* Nothing in updateReactionState or main's loop catches what addReaction
\* throws: it leaves main and reaches main().catch — src/src/index.ts:322, 368, 387-390
OnAddError == "exit"

\* What conversations.history can answer a run: without the Slack token or
\* the channel id every call is refused — src/src/index.ts:183-190, 214-217
HistoryAnswers == IF slackCreds THEN RunResponses ELSE {HistoryError}

OnUnknownReturn == "return"

\* What main does with a token EMOJI_MAP does not know — src/src/index.ts:347-350
OnUnknown == "continue"

AtMostOnePerCategory(S) == \A c \in Categories : Cardinality(S \cap CategorySymbols(c)) <= 1

CurInfo(r) == EMOJI_MAP[Head(eventTypes[r])]

ReconcilerInit ==
  /\ reactions = {}
  /\ pc = [r \in RunIds |-> "idle"]
  /\ eventTypes = [r \in RunIds |-> <<>>]
  /\ messageTimestamp = [r \in RunIds |-> Null]
  /\ existingReactions = [r \in RunIds |-> <<>>]
  /\ rmIdx = [r \in RunIds |-> 0]
  /\ exitCode = [r \in RunIds |-> 0]
  /\ ncalls = [r \in RunIds |-> 0]
  /\ lastLog = [r \in RunIds |-> "none"]
  /\ faulted = [r \in RunIds |-> FALSE]
  /\ startOK = [r \in RunIds |-> TRUE]
  /\ mergedApplied = [r \in RunIds |-> FALSE]
  /\ removed = [r \in RunIds |-> {}]

Init == ReconcilerInit /\ LocatorIdle /\ ScannerIdle /\ AwardsIdle /\ TitleIdle /\ PagesIdle

\* The workflow starts the process with EVENT_TYPE set — src/src/index.ts:325-328, 340
StartRun(r) ==
  /\ pc[r] = "idle"
  /\ \E batch \in Batches : eventTypes' = [eventTypes EXCEPT ![r] = batch]
  /\ pc' = [pc EXCEPT ![r] = "find"]
  /\ startOK' = [startOK EXCEPT ![r] = AtMostOnePerCategory(reactions)]
  /\ UNCHANGED <<reactions, messageTimestamp, existingReactions, rmIdx, exitCode, ncalls,
                 lastLog, faulted, mergedApplied, removed, nonReconcilerVars>>

\* The process has ended (normally, or through main().catch and process.exit(1) —
\* src/src/index.ts:387-390); nothing of it outlives it but the message's reactions.
ProcessExit(r) ==
  /\ pc[r] \in {"done", "failed"}
  /\ pc' = [pc EXCEPT ![r] = "idle"]
  /\ eventTypes' = [eventTypes EXCEPT ![r] = <<>>]
  /\ messageTimestamp' = [messageTimestamp EXCEPT ![r] = Null]
  /\ existingReactions' = [existingReactions EXCEPT ![r] = <<>>]
  /\ rmIdx' = [rmIdx EXCEPT ![r] = 0]
  /\ exitCode' = [exitCode EXCEPT ![r] = 0]
  /\ ncalls' = [ncalls EXCEPT ![r] = 0]
  /\ lastLog' = [lastLog EXCEPT ![r] = "none"]
  /\ faulted' = [faulted EXCEPT ![r] = FALSE]
  /\ startOK' = [startOK EXCEPT ![r] = TRUE]
  /\ mergedApplied' = [mergedApplied EXCEPT ![r] = FALSE]
  /\ removed' = [removed EXCEPT ![r] = {}]
  /\ UNCHANGED <<reactions, nonReconcilerVars>>

\* src/src/index.ts:331-336
FindMessage(r) ==
  /\ pc[r] = "find"
  /\ \E response \in HistoryAnswers :
       LET ts == findMessageWithPrUrl(response) IN
       /\ messageTimestamp' = [messageTimestamp EXCEPT ![r] = ts]
       /\ faulted' = [faulted EXCEPT ![r] = response.error]
       /\ lastLog' = [lastLog EXCEPT ![r] =
            IF response.error THEN "Error searching messages"
            ELSE IF NotFound(ts) THEN "Could not find Slack message for this PR. Exiting."
            ELSE "Found message"]
       /\ pc' = [pc EXCEPT ![r] = IF NotFound(ts) THEN "done" ELSE "get"]
  /\ UNCHANGED <<reactions, eventTypes, existingReactions, rmIdx, exitCode, ncalls,
                 startOK, mergedApplied, removed, nonReconcilerVars>>

\* src/src/index.ts:343 with getMessageReactions, 252-267
GetReactions(r) ==
  /\ pc[r] = "get"
  /\ \E answer \in {"ok", "error"} :
       /\ existingReactions' = [existingReactions EXCEPT ![r] =
            IF answer = "ok" THEN ReactionNames(reactions, 1) ELSE <<>>]
       /\ lastLog' = [lastLog EXCEPT ![r] = IF answer = "ok" THEN @ ELSE "Error getting reactions"]
       /\ faulted' = [faulted EXCEPT ![r] = @ \/ answer = "error"]
  /\ pc' = [pc EXCEPT ![r] = "loop"]
  /\ UNCHANGED <<reactions, eventTypes, messageTimestamp, rmIdx, exitCode, ncalls,
                 startOK, mergedApplied, removed, nonReconcilerVars>>

\* The for-loop is exhausted — src/src/index.ts:384
Finish(r) ==
  /\ pc[r] = "loop"
  /\ eventTypes[r] = <<>>
  /\ pc' = [pc EXCEPT ![r] = "done"]
  /\ lastLog' = [lastLog EXCEPT ![r] = "Done!"]
  /\ UNCHANGED <<reactions, eventTypes, messageTimestamp, existingReactions, rmIdx,
                 exitCode, ncalls, faulted, startOK, mergedApplied, removed, nonReconcilerVars>>

\* src/src/index.ts:346-350
SkipUnknown(r) ==
  /\ pc[r] = "loop"
  /\ eventTypes[r] # <<>>
  /\ Head(eventTypes[r]) \notin KnownEvents
  /\ pc' = [pc EXCEPT ![r] = IF OnUnknown = "continue" THEN "loop" ELSE "done"]
  /\ eventTypes' = [eventTypes EXCEPT ![r] = IF OnUnknown = "continue" THEN Tail(@) ELSE @]
  /\ lastLog' = [lastLog EXCEPT ![r] = "Unknown event type, skipping"]
  /\ UNCHANGED <<reactions, messageTimestamp, existingReactions, rmIdx, exitCode, ncalls,
                 faulted, startOK, mergedApplied, removed, nonReconcilerVars>>

\* src/src/index.ts:354-357
SuppressAfterMerge(r) ==
  /\ pc[r] = "loop"
  /\ eventTypes[r] # <<>>
  /\ Head(eventTypes[r]) \in KnownEvents
  /\ MergedGuard(CurInfo(r), existingReactions[r])
  /\ eventTypes' = [eventTypes EXCEPT ![r] = Tail(@)]
  /\ lastLog' = [lastLog EXCEPT ![r] = "PR is already merged, skipping CI status update"]
  /\ UNCHANGED <<reactions, pc, messageTimestamp, existingReactions, rmIdx, exitCode,
                 ncalls, faulted, startOK, mergedApplied, removed, nonReconcilerVars>>

\* src/src/index.ts:362-365
SuppressLateRunning(r) ==
  /\ pc[r] = "loop"
  /\ eventTypes[r] # <<>>
  /\ Head(eventTypes[r]) \in KnownEvents
  /\ ~MergedGuard(CurInfo(r), existingReactions[r])
  /\ RunningGuard(CurInfo(r), existingReactions[r])
  /\ eventTypes' = [eventTypes EXCEPT ![r] = Tail(@)]
  /\ lastLog' = [lastLog EXCEPT ![r] = "CI already passed, ignoring late running event"]
  /\ UNCHANGED <<reactions, pc, messageTimestamp, existingReactions, rmIdx, exitCode,
                 ncalls, faulted, startOK, mergedApplied, removed, nonReconcilerVars>>

\* src/src/index.ts:368 entering updateReactionState, 305-314
BeginUpdate(r) ==
  /\ pc[r] = "loop"
  /\ eventTypes[r] # <<>>
  /\ Head(eventTypes[r]) \in KnownEvents
  /\ ~MergedGuard(CurInfo(r), existingReactions[r])
  /\ ~RunningGuard(CurInfo(r), existingReactions[r])
  /\ rmIdx' = [rmIdx EXCEPT ![r] = FirstRemoval(CurInfo(r))]
  /\ pc' = [pc EXCEPT ![r] = IF FirstRemoval(CurInfo(r)) = 0 THEN "add" ELSE "remove"]
  /\ lastLog' = [lastLog EXCEPT ![r] = "Updating state"]
  /\ removed' = [removed EXCEPT ![r] = {}]
  /\ UNCHANGED <<reactions, eventTypes, messageTimestamp, existingReactions, exitCode,
                 ncalls, faulted, startOK, mergedApplied, nonReconcilerVars>>

\* One removeReaction call of updateReactionState's loop — src/src/index.ts:315-319, 269-285
RemoveStep(r) ==
  /\ pc[r] = "remove"
  /\ LET info == CurInfo(r)
         name == reactionsToRemove(info.category)[rmIdx[r]]
         next == NextRemoval(info, rmIdx[r])
     IN  \E answer \in RemoveAnswers(name) :
           /\ reactions' = IF answer = "ok" THEN reactions \ {name} ELSE reactions
           /\ removed' = [removed EXCEPT ![r] = IF answer = "ok" THEN @ \cup {name} ELSE @]
           /\ ncalls' = [ncalls EXCEPT ![r] = @ + 1]
           /\ lastLog' = [lastLog EXCEPT ![r] =
                CASE answer = "ok"          -> "Removed reaction"
                  [] answer = "no_reaction" -> "Reaction doesn't exist (already removed)"
                  [] OTHER                  -> "Error removing reaction"]
           /\ faulted' = [faulted EXCEPT ![r] = @ \/ answer = "error"]
           /\ IF RemoveThrows(answer)
              THEN /\ pc' = [pc EXCEPT ![r] = "failed"]
                   /\ exitCode' = [exitCode EXCEPT ![r] = 1]
                   /\ UNCHANGED rmIdx
              ELSE /\ pc' = [pc EXCEPT ![r] = IF next = 0 THEN "add" ELSE "remove"]
                   /\ rmIdx' = [rmIdx EXCEPT ![r] = next]
                   /\ UNCHANGED exitCode
  /\ UNCHANGED <<eventTypes, messageTimestamp, existingReactions, startOK, mergedApplied,
                 nonReconcilerVars>>

\* addReaction, then the working-copy update — src/src/index.ts:322, 287-303, 375-381;
\* a rethrown error reaches main().catch — 387-390
AddStep(r) ==
  /\ pc[r] = "add"
  /\ LET info == CurInfo(r) IN
     \E answer \in AddAnswers(info.emoji) :
       /\ reactions' = IF answer = "ok" THEN reactions \cup {info.emoji} ELSE reactions
       /\ ncalls' = [ncalls EXCEPT ![r] = @ + 1]
       /\ lastLog' = [lastLog EXCEPT ![r] =
            CASE answer = "ok"              -> "Added reaction"
              [] answer = "already_reacted" -> "Reaction already exists"
              [] OTHER                      -> "Error adding reaction"]
       /\ faulted' = [faulted EXCEPT ![r] = @ \/ answer = "error"]
       /\ IF AddThrows(answer)
          THEN IF OnAddError = "exit"
               THEN /\ pc' = [pc EXCEPT ![r] = "failed"]
                    /\ exitCode' = [exitCode EXCEPT ![r] = 1]
                    /\ UNCHANGED <<existingReactions, eventTypes, mergedApplied>>
               ELSE /\ pc' = [pc EXCEPT ![r] = "loop"]
                    /\ eventTypes' = [eventTypes EXCEPT ![r] = Tail(@)]
                    /\ UNCHANGED <<existingReactions, exitCode, mergedApplied>>
          ELSE /\ pc' = [pc EXCEPT ![r] = "loop"]
               /\ existingReactions' = [existingReactions EXCEPT ![r] = UpdateWorkingCopy(@, info)]
               /\ eventTypes' = [eventTypes EXCEPT ![r] = Tail(@)]
               /\ mergedApplied' = [mergedApplied EXCEPT ![r] = @ \/ info.emoji = "git-merged"]
               /\ UNCHANGED exitCode
  /\ UNCHANGED <<messageTimestamp, rmIdx, startOK, removed, nonReconcilerVars>>

Run(r) ==
  \/ StartRun(r)
  \/ FindMessage(r)
  \/ GetReactions(r)
  \/ Finish(r)
  \/ SkipUnknown(r)
  \/ SuppressAfterMerge(r)
  \/ SuppressLateRunning(r)
  \/ BeginUpdate(r)
  \/ RemoveStep(r)
  \/ AddStep(r)
  \/ ProcessExit(r)

\* Between two runs a reviewer adds :eyes: to the message by hand
\* -- src/unnamed/part_001:18
ReviewerReacts ==
  /\ \A r \in RunIds : pc[r] = "idle"
  /\ "eyes" \notin reactions
  /\ reactions' = reactions \cup {"eyes"}
  /\ UNCHANGED <<pc, eventTypes, messageTimestamp, existingReactions, rmIdx, exitCode,
                 ncalls, lastLog, faulted, startOK, mergedApplied, removed,
                 nonReconcilerVars>>

\* Reconciler runs on one message, one after the other.
Next == Run(1) \/ ReviewerReacts

Spec == Init /\ [][Next]_vars

\* The locator applied to every history response.
InitLocate == ReconcilerInit /\ LocateInit /\ ScannerIdle /\ AwardsIdle /\ TitleIdle /\ PagesIdle

NextLocate == Locate

SpecLocate == InitLocate /\ [][NextLocate]_vars

\* One scan of one repository.
NextScan ==
  \/ ScanStart
  \/ ProcessPR
  \/ PrFetchFails
  \/ PRsDone
  \/ FetchComments
  \/ ProcessComment
  \/ ListFails
  \/ CommentsFetchFails
  \/ ScanReturn

SpecScan == Init /\ [][NextScan]_vars

\* One run of the weekly awards.
InitAwards == ReconcilerInit /\ LocatorIdle /\ ScannerIdle /\ AwardsInit /\ TitleIdle /\ PagesIdle

NextAwards ==
  \/ AwardsStart
  \/ \E i \in 1..Len(repos) : Settle(i)
  \/ Join
  \/ Post

SpecAwards == InitAwards /\ [][NextAwards]_vars

\* Reconciler runs of a process whose chat credentials may be missing from the
\* environment — src/src/index.ts:183-190 (non-null assertions, no check).
InitCreds ==
  /\ ReconcilerInit /\ LocatorIdle /\ ScannerIdle
  /\ repos = <<>>
  /\ dryRunEnv = "unset"
  /\ slackCreds \in BOOLEAN
  /\ AwardsIdleState
  /\ TitleIdle
  /\ PagesIdle

SpecCreds == InitCreds /\ [][Next]_vars

\* Two reconciler processes started by two jobs of one pipeline for the same
\* PR: one reports the pass, the other a late running — src/src/index.ts:359-361.
RaceBatch(r) == IF r = 1 THEN <<"circleci_pass">> ELSE <<"circleci_running">>

\* src/src/index.ts:326-330, one process per job
StartRace(r) ==
  /\ pc[r] = "idle"
  /\ eventTypes' = [eventTypes EXCEPT ![r] = RaceBatch(r)]
  /\ pc' = [pc EXCEPT ![r] = "find"]
  /\ startOK' = [startOK EXCEPT ![r] = AtMostOnePerCategory(reactions)]
  /\ UNCHANGED <<reactions, messageTimestamp, existingReactions, rmIdx, exitCode, ncalls,
                 lastLog, faulted, mergedApplied, removed, nonReconcilerVars>>

RaceStep(r) ==
  \/ StartRace(r)
  \/ FindMessage(r)
  \/ GetReactions(r)
  \/ Finish(r)
  \/ SuppressLateRunning(r)
  \/ BeginUpdate(r)
  \/ RemoveStep(r)
  \/ AddStep(r)

NextRace == \E r \in RunIds : RaceStep(r)

SpecRace == Init /\ [][NextRace]_vars

\* ------------------------------------- first version: reaction and PR title

MaxEvents == 3

\* src/src/index.ts:18-22
TITLE_EMOJI_MAP ==
  [review_commented |-> "speech_balloon",
   review_approved  |-> "white_check_mark",
   merged           |-> "rocket"]

\* EVENT_TYPE values a workflow passes; "other" has no entry in the map.
TitleEvents == DOMAIN TITLE_EMOJI_MAP \cup {"other"}

\* src/src/index.ts:163
ReviewEvents == {"review_commented", "review_approved"}

PrTitles == {"Fix login"}

\* The message text as a sequence of atoms: "URL" is the PR URL, "w" any other
\* word; the remaining atoms are the pieces of a titled link.
InitialTexts == {<<"URL">>, <<"w", "URL", "w">>, <<"w">>}

\* String.prototype.indexOf: the first position of atom a, 0 for none
IndexOf(t, a) ==
  IF \E k \in 1..Len(t) : t[k] = a
  THEN CHOOSE k \in 1..Len(t) : t[k] = a /\ \A j \in 1..(k - 1) : t[j] # a
  ELSE 0

\* String.prototype.includes — src/src/index.ts:42
TextIncludes(t, a) == IndexOf(t, a) # 0

\* The template `<${prUrl}|${prTitle}>` — src/src/index.ts:124
TitledLink(title) == <<"<", "URL", "|", title, ">">>

\* String.prototype.replace with a string pattern: the first occurrence only
\* — src/src/index.ts:122-125
Replace(t, a, by) ==
  LET k == IndexOf(t, a) IN
  IF k = 0 THEN t ELSE SubSeq(t, 1, k - 1) \o by \o SubSeq(t, k + 1, Len(t))

TitleInit ==
  /\ msgText \in InitialTexts
  /\ TitleIdleState

\* A workflow starts the process for one event of the PR — src/src/index.ts:10-11, 140-143
TitleStart ==
  /\ titlePc = "idle"
  /\ events < MaxEvents
  /\ \E e \in TitleEvents : eventType' = e
  /\ events' = events + 1
  /\ titlePc' = "find"
  /\ UNCHANGED <<msgText, prTitle, titleReactions, edits, titleExit, nonTitleVars>>

\* findMessageWithPrUrl and the two early returns — src/src/index.ts:24-54, 146-158
TitleFind ==
  /\ titlePc = "find"
  /\ \E answer \in {"ok", "error"} :
       titlePc' = IF answer = "ok" /\ TextIncludes(msgText, "URL") /\ eventType \in DOMAIN TITLE_EMOJI_MAP
                  THEN "react" ELSE "done"
  /\ UNCHANGED <<msgText, eventType, prTitle, titleReactions, events, edits, titleExit,
                 nonTitleVars>>

\* addReaction and the test that follows it — src/src/index.ts:56-74, 161-164, 174-177
TitleReact ==
  /\ titlePc = "react"
  /\ LET emoji == TITLE_EMOJI_MAP[eventType] IN
     \E answer \in {IF emoji \in titleReactions THEN "already_reacted" ELSE "ok", "error"} :
       /\ titleReactions' = IF answer = "ok" THEN titleReactions \cup {emoji} ELSE titleReactions
       /\ IF answer = "error"
          THEN titlePc' = "failed" /\ titleExit' = 1
          ELSE /\ titlePc' = IF eventType \in ReviewEvents THEN "title" ELSE "done"
               /\ UNCHANGED titleExit
  /\ UNCHANGED <<msgText, eventType, prTitle, events, edits, nonTitleVars>>

\* getPrTitle — src/src/index.ts:76-98, 165-166
TitleGetPrTitle ==
  /\ titlePc = "title"
  /\ \E answer \in {<<>>} \cup {<<t>> : t \in PrTitles} :
       /\ prTitle' = answer
       /\ titlePc' = IF answer = <<>> THEN "done" ELSE "update"
  /\ UNCHANGED <<msgText, eventType, titleReactions, events, edits, titleExit, nonTitleVars>>

\* updateMessageWithPrTitle — src/src/index.ts:100-138, 167
TitleUpdate ==
  /\ titlePc = "update"
  /\ \E original \in {"ok", "empty", "error"}, answer \in {"ok", "error"} :
       IF original = "ok" /\ answer = "ok"
       THEN /\ msgText' = Replace(msgText, "URL", TitledLink(prTitle[1]))
            /\ edits' = edits + 1
       ELSE UNCHANGED <<msgText, edits>>
  /\ titlePc' = "done"
  /\ UNCHANGED <<eventType, prTitle, titleReactions, events, titleExit, nonTitleVars>>

\* The process ends — src/src/index.ts:171, 174-177
TitleExit ==
  /\ titlePc \in {"done", "failed"}
  /\ titlePc' = "idle"
  /\ eventType' = "none"
  /\ prTitle' = <<>>
  /\ titleExit' = 0
  /\ UNCHANGED <<msgText, titleReactions, events, edits, nonTitleVars>>

InitTitle == ReconcilerInit /\ LocatorIdle /\ ScannerIdle /\ AwardsIdle /\ TitleInit /\ PagesIdle

NextTitle ==
  \/ TitleStart
  \/ TitleFind
  \/ TitleReact
  \/ TitleGetPrTitle
  \/ TitleUpdate
  \/ TitleExit

SpecTitle == InitTitle /\ [][NextTitle]_vars

\* ----------------------------------------------------------- pagination

\* per_page of the request and the length test — src/src/weekly-awards.ts:129, 103
PerPage == 100

\* src/src/weekly-awards.ts:97
maxPages == 30

MaxListedPages == 31

\* How many full pages the repository's closed PRs fill, and how many more
\* PRs there are after the last full page.
ListedPages == {0, 1, 2, MaxListedPages - 2, MaxListedPages - 1, MaxListedPages}

Extras == {0, 40}

Totals == {n * PerPage + x : n \in ListedPages, x \in Extras}

\* The closed PRs in the order of sort: 'updated', direction: 'desc' — the
\* first `fresh` were updated inside the window, the others before it. A merge
\* updates the PR, so merged_at is never later than updated_at: of the PRs
\* updated inside the window the first `lead` were closed unmerged or merged
\* before the window and touched since, the others were merged inside it.
ClosedListings ==
  {l \in [total : Totals, fresh : Totals \cup {PerPage + 20}, lead : {0, PerPage}] :
     l.lead <= l.fresh /\ l.fresh <= l.total}

\* The k-th closed PR of listing l.
ListedPR(l, k) ==
  [number     |-> k,
   updated_at |-> IF k <= l.fresh THEN sinceDate ELSE sinceDate - 1,
   merged_at  |-> IF k > l.lead /\ k <= l.fresh THEN <<sinceDate>>
                  ELSE IF k % 2 = 0 THEN NullTime ELSE <<sinceDate - 1>>]

\* octokit.rest.pulls.list({..., per_page: 100, page}) — src/src/weekly-awards.ts:122-131
apiCall(l, p) ==
  LET first == (p - 1) * PerPage
      left  == l.total - first
      n     == IF left <= 0 THEN 0 ELSE IF left < PerPage THEN left ELSE PerPage
  IN  [k \in 1..n |-> ListedPR(l, first + k)]

\* Only an empty page ends the loop.
IsShortOnlyWhenEmpty(data) == Len(data) = 0

\* response.data.length < 100 — src/src/weekly-awards.ts:103
IsShort(data) == Len(data) < PerPage

\* No PR of the page was merged inside the window.
shouldStopNoneMerged(data) == \A k \in 1..Len(data) : ~InWindow(data[k])

\* page.every((pr) => pr.updated_at < sinceDate) — src/src/weekly-awards.ts:134
shouldStop(data) == \A k \in 1..Len(data) : data[k].updated_at < sinceDate

\* The two break tests of the loop body — src/src/weekly-awards.ts:103-104
Breaks(data, stop) == IsShort(data) \/ (stop /\ shouldStop(data))

\* closedPRs.filter(...) — src/src/weekly-awards.ts:138-140
FilterMergedInWindow(list) == SelectSeq(list, InWindow)

\* The for-loop from page p on with acc accumulated — src/src/weekly-awards.ts:100-105
RECURSIVE FetchLoop(_, _, _, _)
FetchLoop(l, p, acc, stop) ==
  IF p > maxPages THEN acc
  ELSE LET data == apiCall(l, p) IN
       IF Breaks(data, stop) THEN acc \o data
       ELSE FetchLoop(l, p + 1, acc \o data, stop)

\* fetchAllPages with (stop) or without the shouldStop option — src/src/weekly-awards.ts:95-110
fetchAllPages(l, stop) == FetchLoop(l, 1, <<>>, stop)

\* fetchAllPages is entered for a repository — src/src/weekly-awards.ts:99, 121
PagesInit ==
  /\ listing \in ClosedListings
  /\ withStop \in BOOLEAN
  /\ pagesPc = "loop"
  /\ page = 1
  /\ fetched = <<>>
  /\ requested = <<>>
  /\ warned = FALSE
  /\ closedMerged = <<>>

\* One iteration of the for-loop — src/src/weekly-awards.ts:100-105
FetchPage ==
  /\ pagesPc = "loop"
  /\ page <= maxPages
  /\ LET data == apiCall(listing, page) IN
       /\ requested' = Append(requested, page)
       /\ fetched' = fetched \o data
       /\ IF Breaks(data, withStop)
          THEN pagesPc' = "after" /\ UNCHANGED page
          ELSE page' = page + 1 /\ UNCHANGED pagesPc
  /\ UNCHANGED <<listing, withStop, warned, closedMerged, nonPagesVars>>

\* The loop condition fails — src/src/weekly-awards.ts:100
LoopEnds ==
  /\ pagesPc = "loop"
  /\ page > maxPages
  /\ pagesPc' = "after"
  /\ UNCHANGED <<listing, withStop, page, fetched, requested, warned, closedMerged,
                 nonPagesVars>>

\* The cap warning and the return — src/src/weekly-awards.ts:106-109
ReturnResults ==
  /\ pagesPc = "after"
  /\ warned' = (Len(fetched) >= maxPages * PerPage)
  /\ pagesPc' = "returned"
  /\ UNCHANGED <<listing, withStop, page, fetched, requested, closedMerged, nonPagesVars>>

\* The caller keeps the PRs merged inside the window — src/src/weekly-awards.ts:138-140
FilterMerged ==
  /\ pagesPc = "returned"
  /\ closedMerged' = FilterMergedInWindow(fetched)
  /\ pagesPc' = "filtered"
  /\ UNCHANGED <<listing, withStop, page, fetched, requested, warned, nonPagesVars>>

InitPages ==
  ReconcilerInit /\ LocatorIdle /\ ScannerIdle /\ AwardsIdle /\ TitleIdle /\ PagesInit

NextPages ==
  \/ FetchPage
  \/ LoopEnds
  \/ ReturnResults
  \/ FilterMerged

SpecPages == InitPages /\ [][NextPages]_vars

\* Every page request returns, so the step that waits for it is taken.
SpecPagesFair == SpecPages /\ WF_vars(NextPages)

\* ------------------------------------------------------ reconciler claims

CiEvents == {e \in KnownEvents : EMOJI_MAP[e].category = "ci"}

TerminalCi == {"circleci-pass", "circleci-fail"}

\* Run r takes a step of its own.
Steps(r) == <<pc[r], eventTypes[r], rmIdx[r]>> # <<pc'[r], eventTypes'[r], rmIdx'[r]>>

\* Run r stands at the head of the for-loop with an event left to evaluate.
AtEvent(r) == pc[r] = "loop" /\ eventTypes[r] # <<>>

\* The event at the head of run r's batch was not applied: the loop went on
\* to the next event and no reaction call was issued.
Suppressed(r) ==
  /\ pc'[r] = "loop"
  /\ eventTypes'[r] = Tail(eventTypes[r])
  /\ ncalls'[r] = ncalls[r]
  /\ reactions' = reactions

\* C1: when a run that started from a message with at most one symbol per
\* category ends without any platform call having failed, each of the
\* categories approval, ci and merge holds at most one symbol on the message.
C1_OneSymbolPerCategoryAfterRun ==
  \A r \in RunIds :
    (pc[r] = "done" /\ startOK[r] /\ ~faulted[r]) => AtMostOnePerCategory(reactions)

\* A run that replaced symbols has ended: two events applied, every call answered.
C1_Witness ==
  /\ pc[1] = "done" /\ startOK[1] /\ ~faulted[1]
  /\ ncalls[1] >= 4
  /\ Cardinality(reactions) >= 2

\* C2: once git-merged is on the message, no step taken for a ci-category
\* event changes the message's reaction set, in the batch that applied merged
\* or in a later run.
C2_MergedLocksCi ==
  [][\A r \in RunIds :
       ( /\ "git-merged" \in reactions
         /\ pc[r] \in {"loop", "remove", "add"}
         /\ eventTypes[r] # <<>>
         /\ Head(eventTypes[r]) \in CiEvents )
       => reactions' = reactions]_vars

\* C3: a circleci_running event that arrives while circleci-pass or
\* circleci-fail is in the observed set is suppressed: no run is ever inside
\* the transition of a circleci_running event with a terminal symbol in its
\* working copy.
C3_TerminalCiNeverDowngraded ==
  \A r \in RunIds :
    (pc[r] \in {"remove", "add"} /\ Head(eventTypes[r]) = "circleci_running")
    => \A t \in TerminalCi : ~ListIncludes(existingReactions[r], t)

\* C4: the guards of an event see the earlier events of its batch. A ci event
\* evaluated after a merged event of the same batch was applied is suppressed,
\* whatever the message held at run start; a ci event evaluated while
\* git-merged is not on the message is applied even though merged follows it
\* in the batch (unless it is a running event with circleci-pass on the message).
C4_GuardsSeeEarlierEvents ==
  [][\A r \in RunIds :
       (AtEvent(r) /\ Head(eventTypes[r]) \in CiEvents /\ Steps(r)) =>
         /\ mergedApplied[r] => Suppressed(r)
         /\ ( /\ "git-merged" \notin reactions
              /\ ListIncludes(Tail(eventTypes[r]), "merged")
              /\ ~(Head(eventTypes[r]) = "circleci_running" /\ "circleci-pass" \in reactions) )
            => pc'[r] = "remove"]_vars

\* merged was applied by this batch to a message that did not carry git-merged,
\* and a ci event of the same batch is next.
C4_Witness ==
  /\ AtEvent(1) /\ Head(eventTypes[1]) \in CiEvents
  /\ mergedApplied[1]
  /\ ncalls[1] = 1 /\ lastLog[1] = "Added reaction"

\* C5: an unknown event-type token is skipped: the step issues no reaction
\* call, leaves the message and the exit code alone, and the loop goes on with
\* the rest of the batch queued.
C5_UnknownEventSkipped ==
  [][\A r \in RunIds :
       (AtEvent(r) /\ Head(eventTypes[r]) \notin KnownEvents /\ Steps(r)) =>
         /\ Suppressed(r)
         /\ exitCode'[r] = 0]_vars

\* An unknown token has just been skipped and a known event follows it.
C5_Witness ==
  /\ lastLog[1] = "Unknown event type, skipping"
  /\ AtEvent(1) /\ Head(eventTypes[1]) \in KnownEvents
  /\ exitCode[1] = 0

\* C7: when the locator returns null (no match, or the history fetch failed)
\* the run has ended normally, having issued no reaction add or remove.
C7_NotFoundIsNoOp ==
  \A r \in RunIds :
    (pc[r] \notin {"idle", "find"} /\ messageTimestamp[r] = Null) =>
      /\ pc[r] = "done"
      /\ ncalls[r] = 0
      /\ exitCode[r] = 0

\* The history fetch failed for a run that had events to apply.
C7_Witness ==
  /\ pc[1] = "done" /\ messageTimestamp[1] = Null
  /\ lastLog[1] = "Error searching messages"
  /\ eventTypes[1] # <<>>
  /\ reactions # {}

\* C8: a transport error on reactions.remove is swallowed, the transition
\* goes on (to the next removal or to the add of the same event) and the exit
\* code stays 0; a transport error on reactions.add fails the run with exit
\* code 1.
C8_RemoveSwallowedAddEscalated ==
  [][\A r \in RunIds :
       /\ (pc[r] = "remove" /\ Steps(r) /\ lastLog'[r] = "Error removing reaction") =>
            /\ pc'[r] \in {"remove", "add"}
            /\ eventTypes'[r] = eventTypes[r]
            /\ exitCode'[r] = 0
       /\ (pc[r] = "add" /\ Steps(r) /\ lastLog'[r] = "Error adding reaction") =>
            /\ pc'[r] = "failed"
            /\ exitCode'[r] = 1]_vars

\* The last removal of a transition failed and the run stands at its add.
C8_Witness ==
  /\ pc[1] = "add"
  /\ lastLog[1] = "Error removing reaction"
  /\ exitCode[1] = 0

\* --------------------------------------------------------- locator claims

Matching(msgs) == {k \in 1..Len(msgs) : Includes(msgs[k].text)}

\* C6: for a fetched page, the locator returns the timestamp of the oldest
\* message containing the PR reference, and null exactly when none matches.
C6_LocatorReturnsOldestMatch ==
  (locateDone /\ ~messages.error /\ messages.hasMessages) =>
    LET msgs == messages.messages IN
    IF Matching(msgs) = {} THEN located = Null
    ELSE \E k \in Matching(msgs) :
           /\ located = <<msgs[k].ts>>
           /\ \A j \in Matching(msgs) : msgs[k].ts <= msgs[j].ts

\* Two messages of the page contain the PR reference and the older was returned.
C6_Witness ==
  /\ locateDone /\ messages.hasMessages
  /\ \E j, k \in Matching(messages.messages) :
       /\ messages.messages[j].ts < messages.messages[k].ts
       /\ located = <<messages.messages[j].ts>>

\* --------------------------------------------------------- scanner claims

Logins == {"alice", "bob", "dave", "dependabot"}

Accounts == {"alice", "bob", "dave"}

\* The indexes of the reviews a human account `login` left in state `state`.
ReviewsIn(revs, login, state) ==
  { k \in 1..Len(revs) :
      /\ revs[k].user.login = login
      /\ revs[k].user.type = "User"
      /\ revs[k].state = state }

\* The rule as stated: an approval or two comment reviews, by a human account
\* other than the PR's author.
Qualifies(login, number, revs) ==
  /\ login \in Accounts
  /\ login # PRAuthor[number]
  /\ \/ ReviewsIn(revs, login, "APPROVED") # {}
     \/ Cardinality(ReviewsIn(revs, login, "COMMENTED")) >= 2

PrsReviewedOf(map, login) ==
  IF login \in DOMAIN map THEN map[login].prsReviewed ELSE {}

\* C9: each iteration of the loop over the merged in-window PRs leaves the
\* PR's key in a login's reviewed set exactly when it was there already or the
\* login's reviews on the PR include an approval or two comment reviews, and
\* the login is a human account other than the PR's author; the other keys of
\* every reviewed set stay as they were.
C9_CreditIffApprovedOrTwoComments ==
  [][ prIdx' = prIdx + 1 =>
        LET number == mergedPRs[prIdx + 1]
            prKey  == PrKey(OwnerRepo, number)
        IN  \A u \in Logins :
              /\ prKey \in PrsReviewedOf(reviewerStats', u)
                   <=> (prKey \in PrsReviewedOf(reviewerStats, u)
                          \/ Qualifies(u, number, reviews'))
              /\ PrsReviewedOf(reviewerStats', u) \ {prKey}
                   = PrsReviewedOf(reviewerStats, u) \ {prKey}
              /\ u \in DOMAIN reviewerStats' =>
                   PrsReviewedOf(reviewerStats', u) # {}
    ]_vars

\* The second PR had one COMMENTED review by alice and an approval by bob:
\* bob holds that PR, alice holds only the first.
C9_Witness ==
  /\ prIdx = 2
  /\ mergedPRs = <<1, 2>>
  /\ reviews = << [user |-> [login |-> "alice", type |-> "User"], state |-> "COMMENTED"],
                  [user |-> [login |-> "bob", type |-> "User"], state |-> "APPROVED"] >>
  /\ PrsReviewedOf(reviewerStats, "bob") = {PrKey(OwnerRepo, 2)}
  /\ PrsReviewedOf(reviewerStats, "alice") = {PrKey(OwnerRepo, 1)}
  /\ "dependabot" \notin DOMAIN reviewerStats

RECURSIVE SumLines(_)
\* The line counts of a set of PR keys, summed.
SumLines(prKeys) ==
  IF prKeys = {} THEN 0
  ELSE LET prKey == CHOOSE x \in prKeys : TRUE
       IN  PrLines(prKey[2]) + SumLines(prKeys \ {prKey})

\* C10: after the loop over the PRs, each reviewer's line total is the sum of
\* the line counts of the distinct PRs in their reviewed set.
C10_LinesCountedOncePerPR ==
  scanPc = "comments" =>
    \A u \in DOMAIN reviewerStats :
      reviewerStats[u].linesReviewed = SumLines(reviewerStats[u].prsReviewed)

\* The number of whitespace-separated words of a body: its maximal runs of
\* word characters.
Words(body) ==
  IF body = NoBody THEN 0
  ELSE Cardinality({k \in 1..Len(body) :
                     body[k] = WordChar /\ (k = 1 \/ body[k - 1] # WordChar)})

CommentCountOf(map, login) ==
  IF login \in DOMAIN map THEN map[login].commentCount ELSE 0

CommentPrsOf(map, login) ==
  IF login \in DOMAIN map THEN map[login].commentPrs ELSE {}

\* C11: each iteration of the comment loop counts the comment (the commenter's
\* comment count and the repository's comment total go up by one, the comment's
\* PR joins the commenter's comment-PR set) exactly when its author is a human
\* account and its body has three or more words; otherwise, and for every
\* other login, nothing is counted.  The reviewed sets are never touched.
C11_CommentCountedIffThreeWords ==
  [][ cIdx' = cIdx + 1 =>
        LET c      == comment'[1]
            human  == c.user.type = "User"
            counts == human /\ Words(c.body) >= 3
            prKey  == PrKey(OwnerRepo, c.number)
        IN  /\ totalComments' = totalComments + (IF counts THEN 1 ELSE 0)
            /\ \A u \in Logins :
                  LET mine == counts /\ u = c.user.login IN
                  /\ CommentCountOf(reviewerStats', u)
                       = CommentCountOf(reviewerStats, u) + (IF mine THEN 1 ELSE 0)
                  /\ CommentPrsOf(reviewerStats', u)
                       = CommentPrsOf(reviewerStats, u) \cup (IF mine THEN {prKey} ELSE {})
                  /\ PrsReviewedOf(reviewerStats', u) = PrsReviewedOf(reviewerStats, u)
            /\ DOMAIN reviewerStats' \subseteq Logins
    ]_vars

\* A three-word comment of alice was counted and her two-word comment, padded
\* with whitespace, was not.
C11_Witness ==
  /\ cIdx = 2
  /\ comment = << [user |-> [login |-> "alice", type |-> "User"],
                   body |-> <<" ", "w", "w", " ", " ", "w", " ">>, number |-> 2] >>
  /\ totalComments = 1
  /\ CommentCountOf(reviewerStats, "alice") = 1
  /\ CommentPrsOf(reviewerStats, "alice") = {PrKey(OwnerRepo, 1)}

\* C20: once a fetch of the scan has thrown (the PR listing, a PR's detail or
\* reviews, the comment listing) the scan has failed and has returned no
\* RepoStats; a RepoStats is returned only by a scan no fetch of which threw,
\* after every merged PR and the comment loop were processed.
C20_FailedScanReturnsNothing ==
  /\ scanFault # "none" => (scanPc = "failed" /\ scanResult = NoResult)
  /\ scanPc = "failed" => scanResult = NoResult
  /\ scanResult # NoResult =>
       /\ scanPc = "returned"
       /\ scanFault = "none"
       /\ prIdx = Len(mergedPRs)
       /\ scanResult = <<RepoStatsOf(reviewerStats, mergedPRs, totalComments)>>

\* The comment listing threw after the PR loop had credited a reviewer: the
\* scan failed holding stats it never returned.
C20_Witness ==
  /\ scanFault = "comments"
  /\ scanPc = "failed"
  /\ reviewerStats # EmptyMap
  /\ scanResult = NoResult

\* ---------------------------------------------------------- awards claims

\* The run has merged the fulfilled scans.
Merged == successfulStats # <<>>

\* A Map without its insertion order.
Entries(map) == {map[k] : k \in 1..Len(map)}

SameStats(x, y) ==
  /\ Entries(x.global) = Entries(y.global)
  /\ x.totalMerged = y.totalMerged
  /\ x.totalComments = y.totalComments

Orderings(n) == {p \in [1..n -> 1..n] : \A i, j \in 1..n : i # j => p[i] # p[j]}

Permuted(list, p) == [i \in 1..Len(list) |-> list[p[i]]]

\* A merge result, taken as a per-repository result again.
AsRepoStats(m) ==
  [reviewerStats |-> m.global, mergedCount |-> m.totalMerged, totalComments |-> m.totalComments]

\* The first k results merged on their own, then the rest.
Regrouped(list, k) ==
  <<AsRepoStats(mergeStats(SubSeq(list, 1, k)))>> \o SubSeq(list, k + 1, Len(list))

\* C12: mergeStats is commutative and associative: whatever the run merged,
\* merging any permutation of the same results, or merging a prefix of the
\* permuted list first and the rest into that, gives every reviewer the same
\* PR set, comment count, comment-PR set and line total, and the same totals.
C12_MergeOrderAndGroupingIrrelevant ==
  Merged =>
    \A p \in Orderings(Len(successfulStats)) :
      LET list == Permuted(successfulStats, p)
      IN  /\ SameStats(mergeStats(list), mergedStats)
          /\ \A k \in 1..Len(list) : SameStats(mergeStats(Regrouped(list, k)), mergedStats)

\* Three scans were merged; alice has a credited PR in the first and a
\* comment in the second, bob is in the third.
C12_Witness ==
  /\ awardsPc = "done"
  /\ Len(successfulStats) = 3
  /\ HasEntry(successfulStats[1].reviewerStats, "alice")
  /\ HasEntry(successfulStats[2].reviewerStats, "alice")
  /\ successfulStats[1].reviewerStats # successfulStats[2].reviewerStats
  /\ HasEntry(successfulStats[3].reviewerStats, "bob")
  /\ mergedStats.totalComments > 0

\* The stats a Map holds for a reviewer; the zero stats when it has no entry.
StatsOf(map, username) ==
  IF HasEntry(map, username) THEN map[EntryIndex(map, username)].stats ELSE NewStats

\* What each merged scan holds for a reviewer, in the order of the merge.
InputsOf(username) ==
  [k \in 1..Len(successfulStats) |-> StatsOf(successfulStats[k].reviewerStats, username)]

RECURSIVE SumFrom(_, _)
SumFrom(numbers, k) ==
  IF k > Len(numbers) THEN 0 ELSE numbers[k] + SumFrom(numbers, k + 1)

\* Sets, comment counts and totals of the merge are the unions and sums of the inputs.
MergedSetsAndCounts ==
  /\ \A u \in Usernames :
       LET g   == StatsOf(mergedStats.global, u)
           ins == InputsOf(u)
       IN  /\ g.prsReviewed = UNION {ins[k].prsReviewed : k \in DOMAIN ins}
           /\ g.commentPrs = UNION {ins[k].commentPrs : k \in DOMAIN ins}
           /\ g.linesPrs = UNION {ins[k].linesPrs : k \in DOMAIN ins}
           /\ g.commentCount = SumFrom([k \in DOMAIN ins |-> ins[k].commentCount], 1)
  /\ mergedStats.totalMerged =
       SumFrom([k \in DOMAIN successfulStats |-> successfulStats[k].mergedCount], 1)
  /\ mergedStats.totalComments =
       SumFrom([k \in DOMAIN successfulStats |-> successfulStats[k].totalComments], 1)

\* The merged line total of every reviewer counts each of their PRs once.
MergedLinesOncePerPR ==
  \A u \in Usernames :
    LET g == StatsOf(mergedStats.global, u)
    IN  g.linesReviewed = SumLines(g.linesPrs)

\* C13: after mergeStats every reviewer's PR set, comment count, comment-PR
\* set and the two totals are the sums (unions) over the merged scan results,
\* and the line total counts no PR twice, also when one PR key occurs in
\* more than one result.
C13_MergedEqualsSumCountedOnce ==
  Merged => MergedSetsAndCounts /\ MergedLinesOncePerPR

\* The (metric, tie-break) pairs formatMessage ranks by.
Rankings ==
  { [metric |-> "prsReviewed.size", tiebreak |-> "commentCount"],
    [metric |-> "commentCount", tiebreak |-> "commentPrs.size"],
    [metric |-> "linesReviewed", tiebreak |-> "linesPrs.size"] }

\* The usernames in ascending lexicographic order, as pairs (smaller, larger).
NameBefore == {<<"alice", "bob">>}

\* Entry a ranks strictly before entry b: by metric descending, then by
\* tie-break descending, then by username ascending.
RanksBefore(a, b, r) ==
  LET ma == Metric(a.stats, r.metric)
      mb == Metric(b.stats, r.metric)
      ta == Metric(a.stats, r.tiebreak)
      tb == Metric(b.stats, r.tiebreak)
  IN  \/ ma > mb
      \/ ma = mb /\ ta > tb
      \/ ma = mb /\ ta = tb /\ <<a.username, b.username>> \in NameBefore

\* The usernames on the medal lines of a message, top to bottom.
MedalNames(text) ==
  LET medals == SelectSeq(text, LAMBDA l : l.kind = "medal")
  IN  [i \in 1..Len(medals) |-> medals[i].username]

\* C14: every ranking of the merged stats is strictly ordered by metric
\* descending, then tie-break descending, then username ascending, and is the
\* same for every insertion order of the Map; the medal lines of the message
\* follow the reviewers' ranking.
C14_RankIsTotalOrderOfStats ==
  Merged =>
    /\ \A r \in Rankings :
         LET ranked == rankBy(mergedStats.global, r.metric, r.tiebreak)
         IN  /\ \A i, j \in 1..Len(ranked) : i < j => RanksBefore(ranked[i], ranked[j], r)
             /\ \A p \in Orderings(Len(mergedStats.global)) :
                  rankBy(Permuted(mergedStats.global, p), r.metric, r.tiebreak) = ranked
    /\ LET ranked == rankBy(mergedStats.global, "prsReviewed.size", "commentCount")
       IN  MedalNames(message) = [i \in 1..Len(Slice(ranked, TopN)) |-> ranked[i].username]

\* bob was inserted into the merged Map before alice, both reviewed one PR and
\* wrote no comment, and the message gives alice the first medal.
C14_Witness ==
  /\ awardsPc = "done"
  /\ posted = <<message>>
  /\ Len(mergedStats.global) = 2
  /\ mergedStats.global[1].username = "bob"
  /\ mergedStats.global[2].username = "alice"
  /\ \A k \in 1..2 : /\ Cardinality(mergedStats.global[k].stats.prsReviewed) = 1
                      /\ mergedStats.global[k].stats.commentCount = 0
  /\ MedalNames(message) = <<"alice", "bob">>

\* The entries of a Map with a positive metric.
Positive(map, metric) == {e \in Entries(map) : Metric(e.stats, metric) > 0}

\* The entry that ranks before every other entry with a positive metric, as
\* <<e>>; <<>> when no entry has a positive metric.
Best(map, r) ==
  LET positive == Positive(map, r.metric)
  IN  IF positive = {} THEN <<>>
      ELSE <<CHOOSE e \in positive : \A f \in positive \ {e} : RanksBefore(e, f, r)>>

\* The lines of a message of one kind.
LinesOfKind(text, kind) == SelectSeq(text, LAMBDA l : l.kind = kind)

\* C15: no ranking of the merged stats holds an entry whose metric is zero or
\* negative; the single winner is the entry that ranks before all others with
\* a positive metric, or nobody when there is none; the message names a heavy
\* lifter only with a positive line total.
C15_NoZeroMetricWinner ==
  Merged =>
    /\ \A r \in Rankings :
         LET ranked == rankBy(mergedStats.global, r.metric, r.tiebreak)
         IN  /\ \A i \in 1..Len(ranked) : Metric(ranked[i].stats, r.metric) > 0
             /\ pickWinner(mergedStats.global, r.metric, r.tiebreak) = Best(mergedStats.global, r)
    /\ LET lifters == LinesOfKind(message, "heavy_lifter")
           best    == Best(mergedStats.global,
                           [metric |-> "linesReviewed", tiebreak |-> "linesPrs.size"])
       IN  /\ Len(lifters) = Len(best)
           /\ \A i \in 1..Len(lifters) :
                /\ lifters[i].count > 0
                /\ lifters[i].username = best[1].username
                /\ lifters[i].count = best[1].stats.linesReviewed

\* alice, the first entry of the merged Map, wrote comments and reviewed no
\* line, nobody else reviewed lines either: the posted message names her for
\* most comments and names no heavy lifter.
C15_Witness ==
  /\ awardsPc = "done"
  /\ posted = <<message>>
  /\ mergedStats.global # <<>>
  /\ mergedStats.global[1].username = "alice"
  /\ mergedStats.global[1].stats.commentCount > 0
  /\ Positive(mergedStats.global, "linesReviewed") = {}
  /\ LinesOfKind(message, "heavy_lifter") = <<>>
  /\ Len(LinesOfKind(message, "most_comments")) = 1
  /\ LinesOfKind(message, "most_comments")[1].username = "alice"

\* No reviewer of the merged stats has a positive PR-reviewed count, comment
\* count or line total.
NoActivity ==
  \A e \in Entries(mergedStats.global) :
    /\ Cardinality(e.stats.prsReviewed) = 0
    /\ e.stats.commentCount = 0
    /\ e.stats.linesReviewed = 0

\* The message without the footer about the failed repositories.
Body ==
  IF failedRepos = <<>> THEN message ELSE SubSeq(message, 1, Len(message) - 2)

AwardLines == {"medal", "heavy_lifter", "most_comments"}

IsQuietWeekMessage(text) ==
  /\ Len(text) = 3
  /\ text[1].kind = "quiet_header"
  /\ text[3].kind = "quiet_body"

IsLeaderboard(text) ==
  /\ Len(text) > 1
  /\ text[1].kind = "header"
  /\ text[Len(text)].kind = "team_stats"
  /\ \E i \in 1..Len(text) : text[i].kind \in AwardLines

\* C16: the message of a run is the quiet-week message exactly when no
\* reviewer has a positive PR-reviewed count, comment count or line total;
\* otherwise it is a leaderboard with at least one award line that ends in the
\* team-stats line.
C16_QuietWeekIffNoActivity ==
  Merged =>
    /\ IsQuietWeekMessage(Body) <=> NoActivity
    /\ ~NoActivity => IsLeaderboard(Body)
    /\ NoActivity => \A i \in 1..Len(Body) : Body[i].kind \notin AwardLines \cup {"header"}

\* Two scans succeeded with no qualifying activity and the quiet-week message
\* was posted.
C16_Witness ==
  /\ awardsPc = "done"
  /\ Len(successfulStats) >= 2
  /\ mergedStats.global = <<>>
  /\ posted = <<message>>
  /\ IsQuietWeekMessage(message)

\* main is past the join.
Joined == awardsPc \in {"posting", "done"} \/ (awardsPc = "exited" /\ settled # <<>>)

\* The scans that settled with the given status, by index.
WithStatus(status) == {i \in DOMAIN settled : settled[i].status = status}

\* The position of index i among the indices of `indices`, in ascending order.
PlaceIn(indices, i) == Cardinality({j \in indices : j <= i})

\* Every configured repository is in exactly one of successfulStats and
\* failedRepos, the fulfilled with their own value, the others by name.
Partitioned ==
  /\ WithStatus("fulfilled") \cup WithStatus("rejected") = 1..Len(repos)
  /\ Len(successfulStats) = Cardinality(WithStatus("fulfilled"))
  /\ Len(failedRepos) = Cardinality(WithStatus("rejected"))
  /\ \A i \in WithStatus("fulfilled") :
       successfulStats[PlaceIn(WithStatus("fulfilled"), i)] = settled[i].value[1]
  /\ \A i \in WithStatus("rejected") :
       failedRepos[PlaceIn(WithStatus("rejected"), i)] = repos[i]

\* C17: once main has started with repositories configured, one scan per
\* repository is under way; a scan that has settled keeps its outcome and a
\* step that settles one scan leaves every other scan as it was; main passes
\* the join only when no scan is pending, and then every repository is in
\* exactly one of the successes and the failures.
C17_JoinWaitsForEveryScan ==
  /\ [](awardsPc # "idle" /\ repos # <<>> => DOMAIN settled = 1..Len(repos))
  /\ [](Joined => WithStatus("pending") = {} /\ Partitioned)
  /\ [][\A i \in DOMAIN settled :
          /\ settled[i].status # "pending" => settled'[i] = settled[i]
          /\ settled'[i].status = "rejected" /\ settled[i].status = "pending"
               => \A j \in DOMAIN settled \ {i} : settled'[j] = settled[j]]_vars

\* The scan of the first repository rejected while others were pending, the
\* other two were fulfilled afterwards, and the message was posted.
C17_Witness ==
  /\ awardsPc = "done"
  /\ posted = <<message>>
  /\ rejectedEarly
  /\ Len(repos) = 3
  /\ settled[1].status = "rejected"
  /\ settled[2].status = "fulfilled"
  /\ settled[3].status = "fulfilled"
  /\ Len(successfulStats) = 2
  /\ failedRepos = <<repos[1]>>

\* The k-th index of `indices` in ascending order.
NthOf(indices, k) == CHOOSE i \in indices : PlaceIn(indices, i) = k

\* The values of the fulfilled scans, in the order of REPOS.
FulfilledValues ==
  [k \in 1..Cardinality(WithStatus("fulfilled")) |->
     settled[NthOf(WithStatus("fulfilled"), k)].value[1]]

\* The names of the repositories whose scan rejected, in the order of REPOS.
RejectedNames ==
  [k \in 1..Cardinality(WithStatus("rejected")) |-> repos[NthOf(WithStatus("rejected"), k)]]

\* The awards message of the fulfilled scans alone.
SummaryOfFulfilled ==
  LET m == mergeStats(FulfilledValues)
  IN  formatMessage(m.global, m.totalMerged, m.totalComments)

\* `text` is the summary of the fulfilled scans, followed, when a scan
\* rejected, by a blank line and one warning line naming exactly the
\* repositories whose scan rejected, and by nothing otherwise.
IsSummaryWithFooter(text) ==
  LET n == Len(SummaryOfFulfilled)
  IN  /\ Len(text) >= n
      /\ SubSeq(text, 1, n) = SummaryOfFulfilled
      /\ LinesOfKind(SummaryOfFulfilled, "warning") = <<>>
      /\ IF WithStatus("rejected") = {} THEN Len(text) = n
         ELSE /\ Len(text) = n + 2
              /\ text[n + 1].kind = ""
              /\ text[n + 2].kind = "warning"
              /\ text[n + 2].names = RejectedNames

\* C18: a run in which no scan was fulfilled exits non-zero and neither posts
\* nor prints a message. A run in which at least one scan was fulfilled goes
\* on with the summary of the fulfilled scans plus the footer naming exactly
\* the failed repositories; it posts at most one message, that one, and has
\* posted it when it ends normally with DRY_RUN not 'true' (the post needs the
\* Slack credentials and chat.postMessage not to throw, else the exit code is 1).
C18_ExitOrPublishSuccessfulOnly ==
  /\ Len(posted) <= 1
  /\ posted # <<>> => awardsPc = "done" /\ awardsExit = 0
  /\ Joined /\ WithStatus("fulfilled") = {} =>
       awardsPc = "exited" /\ awardsExit # 0 /\ posted = <<>> /\ printed = <<>>
  /\ Joined /\ WithStatus("fulfilled") # {} =>
       /\ IsSummaryWithFooter(message)
       /\ posted # <<>> => posted = <<message>>
       /\ awardsPc = "done" /\ dryRunEnv # "true" => posted = <<message>>
       /\ awardsPc = "exited" => awardsExit # 0 /\ dryRunEnv # "true"
       /\ dryRunEnv # "true" /\ slackCreds /\ posted = <<>> => awardsPc \in {"posting", "exited"}

\* The scan of the second of three repositories rejected, the other two were
\* fulfilled with activity, and the posted message ends with the warning
\* naming the second repository alone.
C18_Witness ==
  /\ awardsPc = "done"
  /\ Len(repos) = 3
  /\ WithStatus("rejected") = {2}
  /\ settled[1].value[1].reviewerStats # <<>>
  /\ settled[3].value[1].reviewerStats # <<>>
  /\ Len(posted) = 1
  /\ posted[1][Len(posted[1])].kind = "warning"
  /\ posted[1][Len(posted[1])].names = <<repos[2]>>

\* C19: with DRY_RUN set to 'true' the run never posts a message, whatever
\* the scans' outcomes and whether or not the Slack credentials are set; when
\* at least one scan was fulfilled it ends normally having printed the message
\* it would have posted.
C19_DryRunNeverPosts ==
  dryRunEnv = "true" =>
    /\ posted = <<>>
    /\ awardsPc # "posting"
    /\ Joined /\ WithStatus("fulfilled") # {} =>
         /\ awardsPc = "done"
         /\ awardsExit = 0
         /\ printed = <<message>>
         /\ IsSummaryWithFooter(message)

\* A dry run with the Slack credentials set, one scan rejected and one
\* fulfilled with activity: the message was printed and nothing was posted.
C19_Witness ==
  /\ dryRunEnv = "true"
  /\ slackCreds
  /\ awardsPc = "done"
  /\ WithStatus("rejected") # {}
  /\ mergedStats.global # <<>>
  /\ printed = <<message>>
  /\ message # <<>>
  /\ posted = <<>>

\* ------------------------------------------- reconciler claims, continued

\* C25: at every point of a run that started from a message with at most one
\* symbol per category, between any two of its remove and add calls, each
\* category holds at most one symbol on the message.
C25_OneSymbolPerCategoryThroughout ==
  \A r \in RunIds :
    (pc[r] # "idle" /\ startOK[r]) => AtMostOnePerCategory(reactions)

\* The symbol of the event at the head of run r's batch is the only symbol of
\* its category on the message.
AlreadyInState(r) ==
  reactions \cap CategorySymbols(CurInfo(r).category) = {CurInfo(r).emoji}

\* C26: while the symbol of an event is already the only symbol of its
\* category, no step taken for that event changes the message's reaction set;
\* the not-present answer to a remove and the already-present answer to an add
\* let the run go on with exit code 0 and the add ends the event.
C26_ReapplyingIsNoOp ==
  [][\A r \in RunIds :
       ( /\ pc[r] \in {"loop", "remove", "add"}
         /\ eventTypes[r] # <<>>
         /\ Head(eventTypes[r]) \in KnownEvents
         /\ AlreadyInState(r)
         /\ Steps(r) ) =>
         /\ reactions' = reactions
         /\ lastLog'[r] \in {"Reaction doesn't exist (already removed)", "Reaction already exists"}
              => /\ pc'[r] \in {"remove", "add", "loop"}
                 /\ exitCode'[r] = 0
         /\ lastLog'[r] = "Reaction already exists"
              => /\ pc'[r] = "loop"
                 /\ eventTypes'[r] = Tail(eventTypes[r])]_vars

\* review_approved was applied to a message that already carried git-approved
\* as its only approval symbol: two removes answered not-present, the add
\* answered already-present, and the run goes on.
C26_Witness ==
  /\ pc[1] = "loop"
  /\ lastLog[1] = "Reaction already exists"
  /\ ncalls[1] = 3
  /\ ~faulted[1]
  /\ exitCode[1] = 0
  /\ removed[1] = {}
  /\ reactions \cap CategorySymbols("approval") = {"git-approved"}

\* Run r has just finished applying an event: the add of its transition was
\* answered without an escalated error.
EventApplied(r) ==
  /\ pc[r] = "loop"
  /\ lastLog[r] \in {"Added reaction", "Reaction already exists"}

\* The working copy of run r and the message carry the same managed symbols.
CopyAgrees(r) ==
  Range(existingReactions[r]) \cap ManagedSymbols = reactions \cap ManagedSymbols

\* C27: in a run with no other writer on the message, after each applied event
\* the working copy read at the start of the run agrees with the reaction set
\* of the message on every symbol of the three categories.
C27_WorkingCopyAgrees ==
  \A r \in RunIds : EventApplied(r) => CopyAgrees(r)

\* The same agreement in the runs where every platform call was answered
\* (no transport error on history, get, remove or add).
AgreesWhenNoCallFails ==
  \A r \in RunIds : (EventApplied(r) /\ ~faulted[r]) => CopyAgrees(r)

\* The symbols on the message that do not belong to category c.
OutsideCategory(S, c) == S \ CategorySymbols(c)

\* C28: no step of a transition adds or removes a symbol outside the category
\* of its event: the symbols of the other two categories and the reactions the
\* bot does not manage are the same before and after every remove and add call.
C28_OtherCategoriesUntouched ==
  [][\A r \in RunIds :
       (pc[r] \in {"remove", "add"} /\ Steps(r)) =>
         OutsideCategory(reactions', CurInfo(r).category)
           = OutsideCategory(reactions, CurInfo(r).category)]_vars

\* A transition of the approval category removed a symbol and added its own
\* while a ci symbol and a reviewer's eyes stayed on the message.
C28_Witness ==
  /\ pc[1] = "loop"
  /\ lastLog[1] = "Added reaction"
  /\ removed[1] # {}
  /\ removed[1] \subseteq CategorySymbols("approval")
  /\ "eyes" \in reactions
  /\ reactions \cap CategorySymbols("ci") # {}
  /\ reactions \cap CategorySymbols("approval") # {}

\* C29: an add that fails with an escalated error stops the run at that
\* event: the run is failed with exit code 1 and its batch is left where it
\* was, a failed run issues no further reaction call, and the symbols the
\* failed transition had removed are not put back on the message.
C29_FailedAddStopsTheRun ==
  [][\A r \in RunIds :
       /\ (pc[r] = "add" /\ lastLog'[r] = "Error adding reaction") =>
            /\ pc'[r] = "failed"
            /\ exitCode'[r] = 1
            /\ eventTypes'[r] = eventTypes[r]
            /\ reactions' = reactions
            /\ removed'[r] = removed[r]
            /\ removed[r] \cap reactions' = {}
       /\ pc[r] = "failed" =>
            /\ ncalls'[r] <= ncalls[r]
            /\ reactions' = reactions
            /\ pc'[r] \in {"failed", "idle"}]_vars

\* The add of a transition failed after the transition had removed a symbol,
\* with a later event of the batch still waiting.
C29_Witness ==
  /\ pc[1] = "failed"
  /\ lastLog[1] = "Error adding reaction"
  /\ exitCode[1] = 1
  /\ removed[1] # {}
  /\ removed[1] \cap reactions = {}
  /\ Len(eventTypes[1]) = 2

\* C22: a reconciler run started without the chat credentials ends with a
\* non-zero exit code and has made no remove or add call on the message.
C22_MissingCredentialIsFatal ==
  \A r \in RunIds :
    (~slackCreds /\ pc[r] \in {"done", "failed"}) =>
      /\ exitCode[r] # 0
      /\ ncalls[r] = 0

\* Without the chat credentials no run writes to the message.
NoWriteWithoutCredentials ==
  ~slackCreds => (reactions \subseteq UnmanagedSymbols /\ \A r \in RunIds : ncalls[r] = 0)

\* Without the chat credentials the weekly summary is never posted, and a run
\* that reached the posting step exits with code 1.
NoPostWithoutCredentials ==
  ~slackCreds => (posted = <<>> /\ (awardsPc = "exited" => awardsExit = 1))

\* Run r found the message and ended normally with every call answered.
FinishedClean(r) ==
  /\ pc[r] = "done"
  /\ ~faulted[r]
  /\ ~NotFound(messageTimestamp[r])
  /\ exitCode[r] = 0

\* C24: once the run carrying circleci_pass and the run carrying the late
\* circleci_running have both finished, in whatever order their calls were
\* interleaved, the message carries circleci-pass and does not carry circleci.
C24_PassSurvivesLateRunning ==
  (\A r \in RunIds : FinishedClean(r)) =>
    /\ "circleci-pass" \in reactions
    /\ "circleci" \notin reactions

\* ------------------------------------------------------ PR title claims

\* C23: once the text of the message has been updated with the titled link, no
\* later event changes the text, and the process of a merged event never
\* changes it.
C23_TitleLinkedOnFirstReviewEventOnly ==
  [][(edits > 0 \/ eventType = "merged") => msgText' = msgText]_vars

\* The process of a merged event never changes the text.
MergedNeverUpdatesText ==
  [][eventType = "merged" => msgText' = msgText]_vars

\* The first accepted update puts the titled link where the first raw URL was.
FirstUpdateLinksTitle ==
  [][(edits = 0 /\ edits' = 1) =>
       /\ eventType \in ReviewEvents
       /\ msgText' = Replace(msgText, "URL", TitledLink(prTitle[1]))
       /\ msgText' # msgText]_vars

\* ------------------------------------------------------ pagination claims

\* C21: over a listing sorted by update time descending, the PRs merged
\* inside the window that the scan keeps after a fetch with the page-level
\* early stop are the ones it keeps after a fetch without the early stop.
C21_EarlyStopKeepsMergedPRs ==
  (pagesPc = "filtered" /\ withStop) =>
    closedMerged = FilterMergedInWindow(fetchAllPages(listing, FALSE))

\* The early stop saved requests: the fetch ended on a full page, the fetch
\* without the stop goes further, and the window holds merged PRs.
C21_Witness ==
  /\ pagesPc = "filtered"
  /\ withStop
  /\ Len(apiCall(listing, Len(requested))) = PerPage
  /\ Len(fetched) < Len(fetchAllPages(listing, FALSE))
  /\ closedMerged # <<>>

\* The pages numbered 1 to n of the listing, one after the other.
RECURSIVE ConcatPages(_, _)
ConcatPages(l, n) == IF n = 0 THEN <<>> ELSE ConcatPages(l, n - 1) \o apiCall(l, n)

\* Page k holds fewer than 100 items, or the stop predicate was given and every
\* PR of page k was updated before the window.
StopsAt(k) ==
  LET data == apiCall(listing, k) IN
  \/ Len(data) < 100
  \/ withStop /\ \A i \in 1..Len(data) : data[i].updated_at < sinceDate

Returning == pagesPc \in {"after", "returned", "filtered"}

\* C30: fetchAllPages returns; it requests the pages 1, 2, ... in order and
\* at most 30 of them, no page before the last requested one is short or
\* satisfies the stop predicate, the last one is or is the 30th, and the list
\* returned is the concatenation of the requested pages, the last included.
C30_FetchAllPagesTerminates ==
  /\ [](/\ requested = [k \in 1..Len(requested) |-> k]
        /\ Len(requested) <= 30
        /\ \A k \in 1..(Len(requested) - 1) : ~StopsAt(k)
        /\ fetched = ConcatPages(listing, Len(requested))
        /\ Returning =>
             /\ Len(requested) >= 1
             /\ StopsAt(Len(requested)) \/ Len(requested) = 30)
  /\ <>(pagesPc = "returned")

\* The stop predicate ended the fetch on the second page, a full one, and
\* that page is part of the returned list.
C30_Witness ==
  /\ pagesPc = "returned"
  /\ withStop
  /\ requested = <<1, 2>>
  /\ Len(apiCall(listing, 2)) = PerPage
  /\ Len(fetched) = 2 * PerPage
  /\ ~warned

\* The cap ended the fetch: thirty full pages, none satisfying the predicate.
CapReached ==
  /\ pagesPc = "returned"
  /\ Len(requested) = maxPages
  /\ ~StopsAt(maxPages)
  /\ warned

====
